---- MODULE Spec2Model ----
(***************************************************************************)
(* A model of the pico8code language server's analysis core:               *)
(*   server/src/util.ts              delimiter scanning, multi-value        *)
(*                                   resolution                             *)
(*   server/src/document/typing.ts   represent / parse of type text         *)
(*   server/src/document/explore.ts  SelfExplore: the scope-tracking walker *)
(*                                                                         *)
(* JavaScript strings are modelled as sequences of one-character strings,  *)
(* so that charAt, substring, indexOf and trim are computed as the code     *)
(* computes them.  A thrown exception is a value of its own.               *)
(***************************************************************************)
EXTENDS Integers, Sequences, FiniteSets, TLC

VARIABLES ex, frames, cursor, last, call

vars == <<ex, frames, cursor, last, call>>

None == [k |-> "undefined"]

(***************************************************************************)
(* JavaScript string primitives                                            *)
(***************************************************************************)
Min(a, b) == IF a <= b THEN a ELSE b
Max(a, b) == IF a >= b THEN a ELSE b

\* String.prototype.charAt: "" past the end.
CharAt(s, i) == IF i >= 0 /\ i < Len(s) THEN s[i + 1] ELSE ""

\* String.prototype.substring(a, b): clamps to [0, length], swaps if a > b.
Substring(s, a, b) ==
    LET a1 == Max(0, Min(a, Len(s)))
        b1 == Max(0, Min(b, Len(s)))
    IN  SubSeq(s, Min(a1, b1) + 1, Max(a1, b1))

\* String.prototype.substr(from, length), from >= 0.
Substr(s, from, length) ==
    IF length <= 0 THEN <<>> ELSE SubSeq(s, from + 1, Min(from + length, Len(s)))

\* String.prototype.substr(from) / substring(from)
SubstrFrom(s, from) == SubSeq(s, Max(0, from) + 1, Len(s))

\* The line feed character (written as a token of its own).
LineFeed == "linefeed"
WhiteSpace == {" ", LineFeed}

RECURSIVE TrimLeft(_)
TrimLeft(s) == IF s # <<>> /\ Head(s) \in WhiteSpace THEN TrimLeft(Tail(s)) ELSE s

RECURSIVE TrimRight(_)
TrimRight(s) ==
    IF s # <<>> /\ s[Len(s)] \in WhiteSpace
    THEN TrimRight(SubSeq(s, 1, Len(s) - 1)) ELSE s

\* String.prototype.trim
Trim(s) == TrimRight(TrimLeft(s))

\* String.prototype.indexOf(c) for a one-character c: -1 when absent.
IndexOf(s, c) ==
    IF \E i \in 1..Len(s) : s[i] = c
    THEN (CHOOSE i \in 1..Len(s) : s[i] = c /\ \A j \in 1..(i - 1) : s[j] # c) - 1
    ELSE -1

\* String.prototype.includes for a one- or two-character needle.
Includes(s, sub) ==
    \E i \in 1..(Len(s) - Len(sub) + 1) : SubSeq(s, i, i + Len(sub) - 1) = sub

\* Array.prototype.join
RECURSIVE Join(_, _)
Join(parts, sep) ==
    IF parts = <<>> THEN <<>>
    ELSE IF Len(parts) = 1 THEN parts[1]
    ELSE parts[1] \o sep \o Join(Tail(parts), sep)

(***************************************************************************)
(* Type values (typing.ts, LuaType).  A LuaType that is a JavaScript string *)
(* (the four atoms, and the pseudo types parse falls back to) carries its  *)
(* text.                                                                   *)
(***************************************************************************)
Str(text) == [k |-> "str", text |-> text]
List(items) == [k |-> "list", items |-> items]
Fn(parameters, ret) == [k |-> "fn", parameters |-> parameters, return |-> ret]
Param(name, type) == [name |-> name, type |-> type]
Table(entries) == [k |-> "table", entries |-> entries]
Entry(key, type) == [key |-> key, type |-> type]
Or(a, b) == [k |-> "or", a |-> a, b |-> b]

NilText == <<"n", "i", "l">>
NumberText == <<"n", "u", "m", "b", "e", "r">>
BooleanText == <<"b", "o", "o", "l", "e", "a", "n">>
StringText == <<"s", "t", "r", "i", "n", "g">>

LuaNil == Str(NilText)
LuaNumber == Str(NumberText)
LuaBoolean == Str(BooleanText)
LuaString == Str(StringText)

Atoms == {LuaNil, LuaNumber, LuaBoolean, LuaString}

\* A thrown SyntaxError, with the message's kind.
SyntaxError(msg) == [k |-> "throw", error |-> "SyntaxError", message |-> msg]
IsThrow(v) == v.k = "throw"

isLuaTable(type) == type.k = "table"
isLuaFunction(type) == type.k = "fn"

(***************************************************************************)
(* util.ts: delimitSubstring                                               *)
(***************************************************************************)
RECURSIVE DelimitLoop(_, _, _, _, _, _)
DelimitLoop(str, open, close, k, s, n) ==
    IF k >= Len(str)
    THEN SyntaxError(IF n < 0 THEN "no matching open" ELSE "no matching close")
    ELSE LET c == str[k + 1] IN
         IF c = open
         THEN DelimitLoop(str, open, close, k + 1, IF n = 0 THEN k + 1 ELSE s, n + 1)
         ELSE IF c = close
         THEN IF n - 1 = 0 THEN [k |-> "span", start |-> s, end |-> k]
              ELSE IF n - 1 < 0 THEN SyntaxError("no matching open")
              ELSE DelimitLoop(str, open, close, k + 1, s, n - 1)
         ELSE DelimitLoop(str, open, close, k + 1, s, n)

\* A scan that ends the group at the first close after its open.
delimitSubstringShallow(str, open, close) ==
    LET d == DelimitLoop(str, open, close, 0, 0, 0) IN
    IF IsThrow(d) THEN d
    ELSE [k |-> "span", start |-> d.start,
          end |-> d.start + IndexOf(SubstrFrom(str, d.start), close)]

delimitSubstring(str, open, close) == DelimitLoop(str, open, close, 0, 0, 0)

(***************************************************************************)
(* util.ts: splitCarefully                                                 *)
(***************************************************************************)
Pairs == <<"(", ")", "[", "]", "{", "}">>

\* A loop that splits on every separator, nested or not.
RECURSIVE SplitLoopEverywhere(_, _, _, _, _)
SplitLoopEverywhere(str, sep, k, l, r) ==
    IF k >= Len(str)
    THEN [k |-> "parts", parts |-> Append(r, Trim(SubstrFrom(str, l)))]
    ELSE IF str[k + 1] = sep
    THEN SplitLoopEverywhere(str, sep, k + 1, k + 1,
                             Append(r, Trim(Substring(str, l, k))))
    ELSE SplitLoopEverywhere(str, sep, k + 1, l, r)

RECURSIVE SplitLoop(_, _, _, _, _)
SplitLoop(str, sep, k, l, r) ==
    IF k >= Len(str)
    THEN [k |-> "parts", parts |-> Append(r, Trim(SubstrFrom(str, l)))]
    ELSE LET c == str[k + 1]
             f == IndexOf(Pairs, c)
         IN  IF -1 < f
             THEN IF f % 2 = 1 THEN SyntaxError("no matching open")
                  ELSE LET d == delimitSubstring(SubstrFrom(str, k), Pairs[f + 1], Pairs[f + 2])
                       IN  IF IsThrow(d) THEN d
                           ELSE SplitLoop(str, sep, k + d.end + 1, l, r)
             ELSE IF c = sep
             THEN SplitLoop(str, sep, k + 1, k + 1, Append(r, Trim(Substring(str, l, k))))
             ELSE SplitLoop(str, sep, k + 1, l, r)

splitCarefully(str, sep) == SplitLoop(str, sep, 0, 0, <<>>)

(***************************************************************************)
(* typing.ts: represent                                                    *)
(***************************************************************************)
CommaSpace == <<",", " ">>
ColonSpace == <<":", " ">>
Arrow == <<"-", ">">>
ObjectObject ==
    <<"[", "o", "b", "j", "e", "c", "t", " ", "O", "b", "j", "e", "c", "t", "]">>

\* What a template literal ${type} makes of a LuaType: a string is itself,
\* an array is its elements joined by ",", any other object "[object Object]".
RECURSIVE JSToString(_)
JSToString(type) ==
    IF type.k = "str" THEN type.text
    ELSE IF type.k = "list"
    THEN Join([i \in 1..Len(type.items) |-> JSToString(type.items[i])], <<",">>)
    ELSE ObjectObject

\* typing.ts line 71: the parameter's type goes through the template literal.
representParameter(it) == it.name \o ColonSpace \o JSToString(it.type)

RECURSIVE represent(_)
represent(type) ==
    IF type.k = "str" THEN type.text
    ELSE IF type.k = "list"
    THEN <<"[">>
         \o Join([i \in 1..Len(type.items) |-> represent(type.items[i])], CommaSpace)
         \o <<"]">>
    ELSE IF isLuaFunction(type)
    THEN <<"(">>
         \o Join([i \in 1..Len(type.parameters) |->
                    representParameter(type.parameters[i])], CommaSpace)
         \o <<")", " ">> \o Arrow \o <<" ">> \o represent(type.return)
    ELSE IF isLuaTable(type)
    THEN <<"{", " ">>
         \o Join([i \in 1..Len(type.entries) |->
                    type.entries[i].key \o ColonSpace \o represent(type.entries[i].type)],
                 CommaSpace)
         \o <<" ", "}">>
    ELSE represent(type.a) \o <<" ", "|", " ">> \o represent(type.b)

(***************************************************************************)
(* typing.ts: parse                                                        *)
(***************************************************************************)
\* The first exception thrown while mapping over a list, if any.
FirstThrow(results) ==
    IF \E i \in 1..Len(results) : IsThrow(results[i])
    THEN results[CHOOSE i \in 1..Len(results) :
                    IsThrow(results[i]) /\ \A j \in 1..(i - 1) : ~IsThrow(results[j])]
    ELSE None

\* reduce((acc, cur) => acc ? { or: [acc, cur] } : cur, null)
RECURSIVE FoldOr(_, _)
FoldOr(acc, rest) ==
    IF rest = <<>> THEN acc ELSE FoldOr(Or(acc, Head(rest)), Tail(rest))

\* Object.fromEntries: a repeated key keeps its first place and its last value.
RECURSIVE FromEntries(_, _)
FromEntries(acc, rest) ==
    IF rest = <<>> THEN acc
    ELSE LET e == Head(rest) IN
         IF \E i \in 1..Len(acc) : acc[i].key = e.key
         THEN FromEntries([i \in 1..Len(acc) |->
                             IF acc[i].key = e.key THEN e ELSE acc[i]], Tail(rest))
         ELSE FromEntries(Append(acc, e), Tail(rest))

\* The grave accent character (it cannot be written inside a TLA+ string).
Grave == "grave"

\* typing.ts line 180: the pseudo type parse returns when no rule applies.
ErrorType(repr) ==
    Str(<<"e", "r", "r", "o", "r", Grave>> \o repr \o <<Grave, "t", "y", "p", "e">>)

RECURSIVE parse(_)
\* it => { co = it.indexOf(":"); [it.substring(0, co).trim(), parse(it.substring(co + 1))] }
parseKeyed(it) ==
    LET co == IndexOf(it, ":") IN
    [key |-> Trim(Substring(it, 0, co)), type |-> parse(SubstrFrom(it, co + 1))]

parseFunction(repr) ==
    LET p == delimitSubstring(repr, "(", ")") IN
    IF IsThrow(p) THEN p
    ELSE LET r == delimitSubstring(SubstrFrom(repr, p.end), "[", "]") IN
    IF IsThrow(r) THEN r
    ELSE LET params == splitCarefully(Substring(repr, p.start, p.end), ",") IN
    IF IsThrow(params) THEN params
    ELSE LET keyed == IF params.parts[1] = <<>> THEN <<>>
                      ELSE [i \in 1..Len(params.parts) |-> parseKeyed(params.parts[i])]
             thrown == FirstThrow([i \in 1..Len(keyed) |-> keyed[i].type])
         IN  IF thrown # None THEN thrown
             ELSE LET ret == parse(<<"[">>
                                   \o Substring(repr, p.end + r.start, p.end + r.end)
                                   \o <<"]">>)
                  IN  IF IsThrow(ret) THEN ret
                      ELSE Fn([i \in 1..Len(keyed) |->
                                 Param(keyed[i].key, keyed[i].type)], ret)

parseList(repr) ==
    LET inner == splitCarefully(Substr(repr, 1, Len(repr) - 2), ",") IN
    IF IsThrow(inner) THEN inner
    ELSE LET items == [i \in 1..Len(inner.parts) |-> parse(inner.parts[i])]
             thrown == FirstThrow(items)
         IN  IF thrown # None THEN thrown ELSE List(items)

parseTable(repr) ==
    LET inner == splitCarefully(Substr(repr, 1, Len(repr) - 2), ",") IN
    IF IsThrow(inner) THEN inner
    ELSE LET keyed == [i \in 1..Len(inner.parts) |-> parseKeyed(inner.parts[i])]
             thrown == FirstThrow([i \in 1..Len(keyed) |-> keyed[i].type])
         IN  IF thrown # None THEN thrown
             ELSE Table(FromEntries(<<>>, [i \in 1..Len(keyed) |->
                                             Entry(keyed[i].key, keyed[i].type)]))

\* The rules of parse after the parenthesised one (typing.ts lines 127-180).
parseRest(repr) ==
    LET character == CharAt(repr, 0)
        list == IF Includes(repr, <<"|">>) THEN splitCarefully(repr, "|")
                ELSE [k |-> "parts", parts |-> <<>>]
    IN  IF IsThrow(list) THEN list
        ELSE IF 1 < Len(list.parts)
        THEN LET items == [i \in 1..Len(list.parts) |-> parse(list.parts[i])]
                 thrown == FirstThrow(items)
             IN  IF thrown # None THEN thrown ELSE FoldOr(Head(items), Tail(items))
        ELSE IF character = "{" /\ CharAt(repr, Len(repr) - 1) = "}" THEN parseTable(repr)
        ELSE IF character = "[" /\ CharAt(repr, Len(repr) - 1) = "]" THEN parseList(repr)
        ELSE IF Includes(repr, Arrow) THEN parseFunction(repr)
        ELSE ErrorType(repr)

parse(text) ==
    LET repr == Trim(text) IN
    IF Str(repr) \in Atoms THEN Str(repr)
    ELSE IF CharAt(repr, 0) = "(" /\ CharAt(repr, Len(repr) - 1) = ")"
    THEN LET d == delimitSubstring(repr, "(", ")") IN
         IF IsThrow(d) THEN d
         ELSE IF Len(repr) - 1 = d.end THEN parse(Substring(repr, d.start, d.end))
         ELSE parseRest(repr)
    ELSE parseRest(repr)

(***************************************************************************)
(* util.ts: locToRange, resolveListOfTypes                                 *)
(***************************************************************************)
\* A node's loc as the parser gives it: 1-based lines, 0-based columns.
Loc(startLine, startColumn, endLine, endColumn) ==
    [start |-> [line |-> startLine, column |-> startColumn],
     end |-> [line |-> endLine, column |-> endColumn]]

locToRange(loc) ==
    [start |-> [line |-> loc.start.line - 1, character |-> loc.start.column],
     end |-> [line |-> loc.end.line - 1, character |-> loc.end.column]]

\* it ?? 'nil'
OrNil(type) == IF type = None THEN LuaNil ELSE type

\* Array.isArray(it) ? it[0] ?? 'nil' : it ?? 'nil'
firstOfType(it) ==
    IF it.k = "list" THEN (IF it.items # <<>> THEN it.items[1] ELSE LuaNil) ELSE OrNil(it)

\* A resolution that takes one type of every entry, the last one included.
resolveListOfTypesFirsts(types) == [i \in 1..Len(types) |-> firstOfType(types[i])]

resolveListOfTypes(types) ==
    LET r == [i \in 1..(Len(types) - 1) |-> firstOfType(types[i])] IN
    IF 0 # Len(types)
    THEN LET lastType == types[Len(types)] IN
         IF lastType.k = "list" THEN r \o lastType.items ELSE r \o <<OrNil(lastType)>>
    ELSE r

\* types[k] ?? 'nil' for the k-th target (k counted from 1 here).
targetType(types, k) == IF k <= Len(types) THEN types[k] ELSE LuaNil

(***************************************************************************)
(* explore.ts: the SelfExplore object.  Scopes live in a heap (st.scopes)  *)
(* and are named by their index; a scope's prototype (Object.create of the *)
(* forked scope's tables) is its parent.  Scope 1 is globalScope, scope 0  *)
(* stands for an undefined currentScope.                                   *)
(***************************************************************************)
Names == {"x", "y"}

GlobalScope == 1

NewScope(tag, parent) ==
    [tag |-> tag, parent |-> parent,
     variables |-> [n \in Names |-> None],
     labels |-> [n \in Names |-> None]]

\* SelfExplore.reset
reset ==
    [docLineMap |-> <<>>,
     diagnostics |-> <<>>,
     symbolNodes |-> <<>>,
     symbols |-> <<>>,
     currentSymbol |-> 0,
     lutScopes |-> <<>>,
     scopes |-> <<NewScope([kind |-> "global", line |-> 0], 0)>>,
     currentScope |-> 0,
     lutVariables |-> <<>>,
     contextStack |-> <<>>,
     thrown |-> None]

\* A thrown Error: it unwinds every handler and ends the traversal, so no
\* operation acts on a state that holds one.
Error(msg) == [k |-> "throw", error |-> "Error", message |-> msg]
Throw(st, err) == [st EXCEPT !.thrown = err]
Running(st) == st.thrown = None

\* A map keyed by anything (docLineMap by end line, lutVariables by start
\* position): a function whose domain is the set of keys written so far.
MapPut(map, key, value) ==
    [p \in DOMAIN map \cup {key} |-> IF p = key THEN value ELSE map[p]]
MapGet(map, key) == IF key \in DOMAIN map THEN map[key] ELSE None

\* docProcess
docProcess(lines) ==
    LET type == parse(lines[1]) IN
    IF IsThrow(type)
    THEN [type |-> None, text |-> Trim(Join([i \in 1..Len(lines) |-> Trim(lines[i])],
                                            <<LineFeed>>))]
    ELSE [type |-> type,
          text |-> Trim(Join([i \in 1..(Len(lines) - 1) |-> Trim(lines[i + 1])],
                             <<LineFeed>>))]

\* docGather: every long-string comment, keyed by the line it ends on.
RECURSIVE docGatherFrom(_, _)
docGatherFrom(map, comments) ==
    IF comments = <<>> THEN map
    ELSE LET it == Head(comments)
             range == locToRange(it.loc)
         IN  docGatherFrom(
                 IF it.isLongString
                 THEN MapPut(map, range.end.line,
                             [range |-> range, value |-> docProcess(it.value)])
                 ELSE map,
                 Tail(comments))

docGather(st, comments) == [st EXCEPT !.docLineMap = docGatherFrom(<<>>, comments)]

\* docMatching: this.docLineMap[range.start.line - 1]?.value
docMatching(st, range) ==
    LET found == MapGet(st.docLineMap, range.start.line - 1) IN
    IF found = None THEN None ELSE found.value

\* hint / information / warning / error
diagnostic(st, severity, message, range) ==
    IF ~Running(st) THEN st ELSE
    [st EXCEPT !.diagnostics =
        Append(@, [message |-> message, range |-> range, severity |-> severity])]
warning(st, message, range) == diagnostic(st, "Warning", message, range)
\* An error reported with the severity of a warning.
errorAsWarning(st, message, range) == diagnostic(st, "Warning", message, range)
error(st, message, range) == diagnostic(st, "Error", message, range)

symbolEnter(st, name, kind, range, selectionRange) ==
    IF ~Running(st) THEN st ELSE
    LET id == Len(st.symbolNodes) + 1
        newSymbol == [name |-> name, kind |-> kind, range |-> range,
                      selectionRange |-> selectionRange,
                      parent |-> st.currentSymbol, children |-> <<>>]
        linked == IF st.currentSymbol # 0
                  THEN [st EXCEPT !.symbolNodes[st.currentSymbol].children = Append(@, id)]
                  ELSE [st EXCEPT !.symbols = Append(@, id)]
    IN  [linked EXCEPT !.symbolNodes = Append(@, newSymbol), !.currentSymbol = id]

\* An exit that leaves no symbol current.
symbolExitAll(st) ==
    IF ~Running(st) THEN st ELSE
    IF st.currentSymbol # 0
    THEN [st EXCEPT !.currentSymbol = 0]
    ELSE Throw(st, Error("symbolExit"))

symbolExit(st) ==
    IF ~Running(st) THEN st ELSE
    IF st.currentSymbol # 0
    THEN [st EXCEPT !.currentSymbol = st.symbolNodes[st.currentSymbol].parent]
    ELSE Throw(st, Error("symbolExit"))

\* scopeFork: the previous scope is what the caller keeps for scopeRestore.
scopeFork(st, range, tag) ==
    IF ~Running(st) THEN st ELSE
    LET id == Len(st.scopes) + 1 IN
    [st EXCEPT !.scopes = Append(@, NewScope(tag, st.currentScope)),
               !.currentScope = id,
               !.lutScopes = Append(@, [range |-> range, scope |-> id])]

scopeRestore(st, previousScope) ==
    IF ~Running(st) THEN st ELSE [st EXCEPT !.currentScope = previousScope]

\* The scope whose own table holds name, looking from scope up the prototype
\* chain; 0 when no scope of the chain holds it.
RECURSIVE ownerOf(_, _, _)
ownerOf(scopes, scope, name) ==
    IF scope = 0 THEN 0
    ELSE IF scopes[scope].variables[name] # None THEN scope
    ELSE ownerOf(scopes, scopes[scope].parent, name)

\* scope.variables[name], through the prototype chain
lookupFrom(scopes, scope, name) ==
    LET owner == ownerOf(scopes, scope, name) IN
    IF owner = 0 THEN None ELSE scopes[owner].variables[name]

variableLookup(st, name) == lookupFrom(st.scopes, st.currentScope, name)

\* A declaration that lands in the scope that already holds the name.
variableDeclareInOwner(st, name, range, type, scope) ==
    IF ~Running(st) THEN st ELSE
    LET owner == ownerOf(st.scopes, st.currentScope, name)
        theScope == IF owner # 0 THEN owner
                    ELSE IF scope = 0 THEN st.currentScope ELSE scope
    IN  [st EXCEPT !.scopes[theScope].variables[name] =
            [types |-> <<type>>, ranges |-> <<range>>, scopes |-> <<theScope>>]]

\* A declaration that writes over the record the scope already holds.
variableDeclareAgain(st, name, range, type, scope) ==
    IF ~Running(st) THEN st ELSE
    LET theScope == IF scope = 0 THEN st.currentScope ELSE scope IN
    [st EXCEPT !.scopes[theScope].variables[name] =
        [types |-> <<type>>, ranges |-> <<range>>, scopes |-> <<theScope>>]]

\* scope = 0 stands for the omitted argument (scope ?? this.currentScope).
variableDeclare(st, name, range, type, scope) ==
    IF ~Running(st) THEN st ELSE
    LET theScope == IF scope = 0 THEN st.currentScope ELSE scope IN
    IF st.scopes[theScope].variables[name] = None
    THEN [st EXCEPT !.scopes[theScope].variables[name] =
            [types |-> <<type>>, ranges |-> <<range>>, scopes |-> <<theScope>>]]
    ELSE Throw(st, Error("declare"))

\* An update that replaces the history with the new event.
variableUpdateReplacing(st, name, range, type, scope) ==
    IF ~Running(st) THEN st ELSE
    LET owner == ownerOf(st.scopes, st.currentScope, name) IN
    IF owner # 0
    THEN [st EXCEPT !.scopes[owner].variables[name] =
            [types |-> <<type>>, ranges |-> <<range>>,
             scopes |-> <<IF scope = 0 THEN st.currentScope ELSE scope>>]]
    ELSE Throw(st, Error("update"))

variableUpdate(st, name, range, type, scope) ==
    IF ~Running(st) THEN st ELSE
    LET owner == ownerOf(st.scopes, st.currentScope, name) IN
    IF owner # 0
    THEN [st EXCEPT !.scopes[owner].variables[name] =
            [types |-> <<type>> \o @.types,
             ranges |-> <<range>> \o @.ranges,
             scopes |-> <<IF scope = 0 THEN st.currentScope ELSE scope>> \o @.scopes]]
    ELSE Throw(st, Error("update"))

\* A reference that records its event whatever the position.
variableReferenceAlways(st, name, range) ==
    IF ~Running(st) THEN st ELSE
    LET owner == ownerOf(st.scopes, st.currentScope, name) IN
    IF owner # 0
    THEN LET variable == st.scopes[owner].variables[name] IN
         [st EXCEPT !.scopes[owner].variables[name] =
             [types |-> <<variable.types[1]>> \o variable.types,
              ranges |-> <<range>> \o variable.ranges,
              scopes |-> <<variable.scopes[1]>> \o variable.scopes]]
    ELSE Throw(st, Error("reference"))

variableReference(st, name, range) ==
    IF ~Running(st) THEN st ELSE
    LET owner == ownerOf(st.scopes, st.currentScope, name) IN
    IF owner # 0
    THEN LET variable == st.scopes[owner].variables[name]
             at == variable.ranges[1].start
         IN  IF at.line = range.start.line /\ at.character = range.start.character
             THEN st
             ELSE [st EXCEPT !.scopes[owner].variables[name] =
                     [types |-> <<variable.types[1]>> \o variable.types,
                      ranges |-> <<range>> \o variable.ranges,
                      scopes |-> <<variable.scopes[1]>> \o variable.scopes]]
    ELSE Throw(st, Error("reference"))

variableLocate(st, name, range) ==
    IF ~Running(st) THEN st ELSE
    LET variable == variableLookup(st, name)
        doc == docMatching(st, range)
    IN  [st EXCEPT !.lutVariables =
            MapPut(@, range.start,
                   [range |-> range, name |-> name,
                    type |-> IF variable # None THEN variable.types[1] ELSE LuaNil,
                    doc |-> doc,
                    scope |-> IF variable # None THEN variable.scopes[1]
                              ELSE st.currentScope])]

contextPush(st, node) ==
    IF ~Running(st) THEN st ELSE [st EXCEPT !.contextStack = <<node>> \o @]

\* A find that gives the outermost node of that type.
contextFindOutermost(st, type) ==
    IF \E i \in 1..Len(st.contextStack) : st.contextStack[i].type = type
    THEN CHOOSE i \in 1..Len(st.contextStack) :
            /\ st.contextStack[i].type = type
            /\ \A j \in (i + 1)..Len(st.contextStack) : st.contextStack[j].type # type
    ELSE 0

\* contextFind: the first node of that type from the top, or undefined.
contextFind(st, type) ==
    IF \E i \in 1..Len(st.contextStack) : st.contextStack[i].type = type
    THEN CHOOSE i \in 1..Len(st.contextStack) :
            /\ st.contextStack[i].type = type
            /\ \A j \in 1..(i - 1) : st.contextStack[j].type # type
    ELSE 0

contextPop(st, expectedType) ==
    IF ~Running(st) THEN st ELSE
    IF st.contextStack # <<>> /\ Head(st.contextStack).type = expectedType
    THEN [st EXCEPT !.contextStack = Tail(@)]
    ELSE Throw([st EXCEPT !.contextStack = IF @ = <<>> THEN @ ELSE Tail(@)],
               Error("contextPop"))

(***************************************************************************)
(* explore.ts: the handlers.  A handler takes the SelfExplore state and a  *)
(* node and gives the state it leaves; an expression handler also gives    *)
(* the augType it attaches to the node.                                    *)
(***************************************************************************)
\* handlers.Identifier
Identifier(st, node) ==
    IF ~Running(st) THEN [st |-> st, augType |-> node.augType]
    ELSE LET range == locToRange(node.loc)
             looked == variableLookup(st, node.name)
             referenced == IF node.augType = None
                           THEN variableReference(st, node.name, range)
                           ELSE st
         IN  [st |-> variableLocate(referenced, node.name, range),
              augType |-> IF node.augType = None
                          THEN (IF looked = None THEN None ELSE looked.types[1])
                          ELSE node.augType]

\* A typing of and / or that always takes the right operand's type.
logicalTypeRight(operator, augLeft, augRight) == OrNil(augRight)

\* handlers.LogicalExpression, lines 708-718
logicalType(operator, augLeft, augRight) ==
    LET tyl == OrNil(augLeft)
        tyr == OrNil(augRight)
    IN  IF operator = "and"
        THEN (IF tyl = LuaNil THEN LuaNil
              ELSE IF tyl = LuaBoolean THEN Or(LuaBoolean, tyr)
              ELSE tyr)
        ELSE IF operator = "or"
        THEN (IF tyl = LuaNil THEN tyr
              ELSE IF tyl = LuaBoolean THEN Or(LuaBoolean, tyr)
              ELSE tyl)
        ELSE None

\* this.handlers[node.type](node) for an expression node
RECURSIVE handleExpression(_, _)
handleExpression(st, node) ==
    IF ~Running(st) THEN [st |-> st, augType |-> None]
    ELSE IF node.type = "Identifier" THEN Identifier(st, node)
    ELSE IF node.type = "NumericLiteral" THEN [st |-> st, augType |-> LuaNumber]
    ELSE IF node.type = "StringLiteral" THEN [st |-> st, augType |-> LuaString]
    ELSE IF node.type = "BooleanLiteral" THEN [st |-> st, augType |-> LuaBoolean]
    ELSE IF node.type = "NilLiteral" THEN [st |-> st, augType |-> LuaNil]
    ELSE IF node.type = "VarargLiteral"
    THEN LET doc == docMatching(st, locToRange(node.loc)) IN
         [st |-> st,
          augType |-> IF doc = None \/ doc.type = None THEN List(<<>>) ELSE doc.type]
    ELSE \* LogicalExpression
         LET left == handleExpression(st, node.left)
             right == handleExpression(left.st, node.right)
         IN  [st |-> right.st,
              augType |-> logicalType(node.operator, left.augType, right.augType)]

\* nodes.map(it => { this.handlers[it.type](it); return it.augType })
RECURSIVE handleAll(_, _, _)
handleAll(st, nodes, augTypes) ==
    IF nodes = <<>> THEN [st |-> st, augTypes |-> augTypes]
    ELSE LET r == handleExpression(st, Head(nodes)) IN
         handleAll(r.st, Tail(nodes), Append(augTypes, r.augType))

\* The first lines of the three assigning statements: the init expressions
\* are visited and their types resolved.
initTypes(st, init) ==
    LET visited == handleAll(st, init, <<>>) IN
    [st |-> visited.st,
     types |-> resolveListOfTypes(
                   [i \in 1..Len(visited.augTypes) |-> OrNil(visited.augTypes[i])])]

\* handlers.LocalStatement, lines 465-473, from the k-th variable on
RECURSIVE declareLocals(_, _, _, _)
declareLocals(st, variables, types, k) ==
    IF k > Len(variables) \/ ~Running(st) THEN st
    ELSE LET it == variables[k]
             range == locToRange(it.loc)
             entered == symbolEnter(st, it.name, "Object", range, range)
             declared == variableDeclare(entered, it.name, range, targetType(types, k), 0)
             visited == Identifier(declared, it).st
         IN  declareLocals(symbolExit(visited), variables, types, k + 1)

LocalStatement(st, node) ==
    LET resolved == initTypes(st, node.init) IN
    declareLocals(resolved.st, node.variables, resolved.types, 1)

\* An assignment that declares the names it does not see in the current scope.
RECURSIVE assignTargetsLocally(_, _, _, _)
assignTargetsLocally(st, variables, types, k) ==
    IF k > Len(variables) \/ ~Running(st) THEN st
    ELSE LET it == variables[k]
             range == locToRange(it.loc)
             type == targetType(types, k)
             variable == variableLookup(st, it.name)
             done ==
                IF variable # None
                THEN Identifier(variableUpdate(st, it.name, range, type, variable.scopes[1]),
                                it).st
                ELSE LET entered == symbolEnter(st, it.name, "Object", range, range)
                         declared == variableDeclare(entered, it.name, range, type, 0)
                     IN  symbolExit(Identifier(declared, it).st)
         IN  assignTargetsLocally(done, variables, types, k + 1)

\* handlers.AssignmentStatement, lines 483-502, from the k-th variable on
RECURSIVE assignTargets(_, _, _, _)
assignTargets(st, variables, types, k) ==
    IF k > Len(variables) \/ ~Running(st) THEN st
    ELSE LET it == variables[k]
             range == locToRange(it.loc)
             type == targetType(types, k)
             variable == variableLookup(st, it.name)
             done ==
                IF it.type # "Identifier" THEN st
                ELSE IF variable # None
                THEN Identifier(variableUpdate(st, it.name, range, type, variable.scopes[1]),
                                it).st
                ELSE LET entered == symbolEnter(st, it.name, "Object", range, range)
                         declared == variableDeclare(entered, it.name, range, type,
                                                     GlobalScope)
                     IN  symbolExit(Identifier(declared, it).st)
         IN  assignTargets(done, variables, types, k + 1)

AssignmentStatement(st, node) ==
    LET resolved == initTypes(st, node.init) IN
    assignTargets(resolved.st, node.variables, resolved.types, 1)

\* The operation's type put in front of the resolved types.
operatorTypesPrepended(types, operator) ==
    <<IF operator = ".." THEN LuaString ELSE LuaNumber>> \o types

\* types[0] = ".." === node.operator ? 'string' : 'number'
operatorTypes(types, operator) ==
    LET first == IF operator = ".." THEN LuaString ELSE LuaNumber IN
    IF types = <<>> THEN <<first>> ELSE <<first>> \o Tail(types)

AssignmentOperatorStatement(st, node) ==
    LET resolved == initTypes(st, node.init) IN
    assignTargets(resolved.st, node.variables,
                  operatorTypes(resolved.types, node.operator), 1)

\* handlers.ReturnStatement
ReturnStatement(st, node) ==
    LET fun == contextFind(st, "FunctionDeclaration") IN
    IF fun = 0
    THEN error(st, "no function to return from", locToRange(node.loc))
    ELSE LET started == [st EXCEPT !.contextStack[fun].augReturns =
                            IF @ = None THEN [k |-> "array", items |-> <<>>] ELSE @]
             visited == handleAll(started, node.arguments, <<>>)
         IN  IF ~Running(visited.st) THEN visited.st
             ELSE [visited.st EXCEPT !.contextStack[fun].augReturns.items =
                      Append(@, [type |-> "ReturnStatement",
                                 arguments |-> visited.augTypes, loc |-> node.loc])]

\* A TypeError (reading a property of undefined).
TypeError(msg) == [k |-> "throw", error |-> "TypeError", message |-> msg]

\* handlers.FunctionDeclaration, lines 338-351, from the k-th parameter on
RECURSIVE declareParameters(_, _, _, _, _)
declareParameters(st, parameters, overrideType, k, done) ==
    IF k > Len(parameters) \/ ~Running(st) THEN [st |-> st, parameters |-> done]
    ELSE LET it == parameters[k]
             missing == overrideType # None /\ k > Len(overrideType.parameters)
             type == IF overrideType # None /\ ~missing
                     THEN overrideType.parameters[k].type ELSE LuaNil
             declared == IF missing THEN Throw(st, TypeError("parameters[k].type"))
                         ELSE variableDeclare(st, it.name, locToRange(it.loc), type, 0)
             visited == Identifier(declared, it)
         IN  declareParameters(visited.st, parameters, overrideType, k + 1,
                               Append(done, Param(<<it.name>>, OrNil(visited.augType))))

\* handlers.FunctionDeclaration, lines 329-351: up to the walk of the body.
\* The handler's locals are kept for the lines that follow the body.
FunctionDeclarationEnter(st, node) ==
    LET range == locToRange(node.loc)
        doc == docMatching(st, range)
        \* isLuaFunction(doc.type) reads .return of undefined when the comment's
        \* first line made parse throw: a TypeError, before anything else is done
        checked == IF doc # None /\ doc.type = None
                   THEN Throw(st, TypeError("isLuaFunction")) ELSE st
        overrideType == IF doc # None /\ doc.type # None /\ isLuaFunction(doc.type)
                        THEN doc.type ELSE None
        entered == symbolEnter(checked,
                               IF node.identifier # None THEN node.identifier.name
                               ELSE "<anonymous>",
                               "Function", range, range)
        pushed == contextPush(entered, node)
        forked == scopeFork(pushed, range,
                            [kind |-> "function", line |-> node.loc.start.line])
        declared == declareParameters(forked, node.parameters, overrideType, 1, <<>>)
    IN  [st |-> declared.st,
         locals |-> [previousScope |-> pushed.currentScope,
                     overrideType |-> overrideType,
                     parameters |-> declared.parameters]]

\* buildBinaryTree(list, 'or'): undefined for an empty list, the element for
\* a single one, else the binary tree of unions folded from the left.
buildBinaryTree(list) ==
    IF list = <<>> THEN None ELSE FoldOr(Head(list), Tail(list))

\* lines 364-368: the type of one return statement
returnType(it) ==
    LET list == resolveListOfTypes(it.arguments) IN
    IF 0 = Len(list) THEN LuaNil
    ELSE IF 1 = Len(list) THEN list[1]
    ELSE List(list)

\* lines 361-371
resolvedFunctionType(augReturns, parameters) ==
    Fn(parameters,
       IF augReturns = None THEN LuaNil
       ELSE OrNil(buildBinaryTree(
                [i \in 1..Len(augReturns.items) |-> returnType(augReturns.items[i])])))

\* handlers.FunctionDeclaration, lines 353-382: after the walk of the body
FunctionDeclarationExit(st, node, locals) ==
    LET restored == scopeRestore(st, locals.previousScope)
        augReturns == IF st.contextStack # <<>> /\ "augReturns" \in DOMAIN Head(st.contextStack)
                      THEN Head(st.contextStack).augReturns ELSE None
        popped == contextPop(restored, "FunctionDeclaration")
        augType == IF locals.overrideType # None THEN locals.overrideType
                   ELSE resolvedFunctionType(augReturns, locals.parameters)
        bound == IF node.identifier = None THEN popped
                 ELSE Identifier(
                          variableDeclare(popped, node.identifier.name,
                                          locToRange(node.identifier.loc), augType,
                                          IF node.isLocal THEN 0 ELSE GlobalScope),
                          node.identifier).st
    IN  [st |-> symbolExit(bound), augType |-> augType]

\* handlers.DoStatement, lines 441-442
DoStatementEnter(st, node) ==
    LET pushed == contextPush(st, node) IN
    [st |-> scopeFork(pushed, locToRange(node.loc),
                      [kind |-> "do", line |-> node.loc.start.line]),
     locals |-> [previousScope |-> pushed.currentScope]]

\* handlers.DoStatement, lines 444-445
DoStatementExit(st, locals) ==
    contextPop(scopeRestore(st, locals.previousScope), "DoStatement")

\* explore() and handlers.Chunk, lines 307-310
ChunkEnter(st, node) ==
    LET gathered == docGather(st, node.comments)
        pushed == contextPush(gathered, [type |-> "Chunk", loc |-> node.loc])
    IN  [pushed EXCEPT !.currentScope = GlobalScope,
                       !.lutScopes = Append(@, [range |-> locToRange(node.loc),
                                                scope |-> GlobalScope])]

\* handlers.Chunk, line 313
ChunkExit(st) == contextPop(st, "Chunk")

(***************************************************************************)
(* The trees the walker is given.  The tree is produced statement by       *)
(* statement, in source order: statement k of the chunk starts on line     *)
(* 2k (as the parser counts lines), and a block that holds n statements    *)
(* ends on the line after its last one.  MaxStatements bounds the chunk.   *)
(***************************************************************************)
MaxStatements == 4

StatementLine(k) == 2 * k

IdentifierNode(name, line, column) ==
    [type |-> "Identifier", name |-> name, augType |-> None,
     loc |-> Loc(line, column, line, column + 1)]

Literal(type, line, column) ==
    [type |-> type, loc |-> Loc(line, column, line, column + 1)]

LogicalNode(operator, left, right) ==
    [type |-> "LogicalExpression", operator |-> operator, left |-> left,
     right |-> right, loc |-> [start |-> left.loc.start, end |-> right.loc.end]]

\* An expression of a statement, from its shape, starting at this column.
Expression(shape, line, column) ==
    CASE shape = "number" -> Literal("NumericLiteral", line, column)
      [] shape = "string" -> Literal("StringLiteral", line, column)
      [] shape = "nil" -> Literal("NilLiteral", line, column)
      [] shape = "..." -> Literal("VarargLiteral", line, column)
      [] shape = "x" -> IdentifierNode("x", line, column)
      [] shape = "y" -> IdentifierNode("y", line, column)
      [] shape = "x or number" ->
            LogicalNode("or", IdentifierNode("x", line, column),
                        Literal("NumericLiteral", line, column + 5))
      [] shape = "boolean and y" ->
            LogicalNode("and", Literal("BooleanLiteral", line, column),
                        IdentifierNode("y", line, column + 5))

\* The expression list of a statement: expression k starts at column 3 + 10k.
ExpressionList(shapes, line) ==
    [i \in 1..Len(shapes) |-> Expression(shapes[i], line, 3 + 10 * i)]

\* The variable list of a statement: name k stands at column first + 3k.
IdentifierList(names, line, first) ==
    [i \in 1..Len(names) |-> IdentifierNode(names[i], line, first + 3 * (i - 1))]

LeafLoc(line) == Loc(line, 0, line, 40)
BlockLoc(k, size) == Loc(StatementLine(k), 0, StatementLine(k + size) + 1, 3)

LocalStatementNode(names, shapes, line) ==
    [type |-> "LocalStatement", variables |-> IdentifierList(names, line, 6),
     init |-> ExpressionList(shapes, line), loc |-> LeafLoc(line)]

AssignmentStatementNode(names, shapes, line) ==
    [type |-> "AssignmentStatement", variables |-> IdentifierList(names, line, 0),
     init |-> ExpressionList(shapes, line), loc |-> LeafLoc(line)]

AssignmentOperatorStatementNode(operator, names, shapes, line) ==
    [type |-> "AssignmentOperatorStatement", operator |-> operator,
     variables |-> IdentifierList(names, line, 0),
     init |-> ExpressionList(shapes, line), loc |-> LeafLoc(line)]

ReturnStatementNode(shapes, line) ==
    [type |-> "ReturnStatement", arguments |-> ExpressionList(shapes, line),
     loc |-> LeafLoc(line)]

FunctionDeclarationNode(name, isLocal, parameters, k, size) ==
    [type |-> "FunctionDeclaration",
     identifier |-> IdentifierNode(name, StatementLine(k), 9),
     isLocal |-> isLocal,
     parameters |-> IdentifierList(parameters, StatementLine(k), 11),
     augReturns |-> None,
     loc |-> BlockLoc(k, size)]

DoStatementNode(k, size) == [type |-> "DoStatement", loc |-> BlockLoc(k, size)]

\* Comment texts, line by line (README, "Doc Comments" and "Function Type").
DocFunctionText == <<" ", "(", "a", ":", " ", "n", "u", "m", "b", "e", "r", ")", " ", "-", ">", " ", "s", "t", "r", "i", "n", "g">>
DocBracketText == <<" ", "(", "a", ":", " ", "n", "u", "m", "b", "e", "r", ")", " ", "-", ">", " ", "[", "s", "t", "r", "i", "n", "g", ",", " ", "n", "u", "m", "b", "e", "r", "]">>
DocProseText == <<" ", "a", "d", "d", "s", " ", "t", "w", "o">>
DocBodyText == <<" ", "s", "u", "m">>
DocListText == <<" ", "[", "s", "t", "r", "i", "n", "g", ",", " ", "n", "u", "m", "b", "e", "r", "]">>

\* A long-string comment that ends on the line above statement 1.
Comment(firstLine) ==
    [type |-> "Comment", isLongString |-> TRUE, value |-> <<firstLine, DocBodyText, <<>>>>,
     loc |-> Loc(1, 0, 1, 40)]

DocumentedComments == {<<Comment(t)>> : t \in {DocFunctionText, DocBracketText, DocProseText}}

ChunkNode(comments, size) ==
    [type |-> "Chunk", comments |-> comments, loc |-> Loc(1, 0, StatementLine(size) + 1, 0)]

(***************************************************************************)
(* The traversal.  frames holds the block handlers that have started and   *)
(* not returned (innermost first), each with its locals and the number of  *)
(* statements its body still has to give; cursor counts the statements     *)
(* started; last is the node the last step handled.                        *)
(***************************************************************************)
Idle == [op |-> "none"]

Init ==
    /\ ex = reset
    /\ frames = <<>>
    /\ cursor = 0
    /\ last = [type |-> "none"]
    /\ call = Idle

Frame(node, locals, remaining) ==
    [type |-> node.type, node |-> node, locals |-> locals, remaining |-> remaining]

CanStart ==
    /\ frames # <<>>
    /\ Running(ex)
    /\ Head(frames).remaining > 0
    /\ Head(frames).type # "IfStatement"

\* The enclosing frames once a statement holding size more statements started.
Consumed(size) == <<[Head(frames) EXCEPT !.remaining = @ - 1 - size]>> \o Tail(frames)

Leaf(node, st) ==
    /\ ex' = st
    /\ frames' = Consumed(0)
    /\ cursor' = cursor + 1
    /\ last' = node
    /\ UNCHANGED call

Explore(commentLists) ==
    /\ frames = <<>>
    /\ last.type = "none"
    /\ call = Idle
    /\ \E comments \in commentLists, size \in 0..MaxStatements :
          LET node == ChunkNode(comments, size) IN
          /\ ex' = ChunkEnter(ex, node)
          /\ frames' = <<Frame(node, None, size)>>
          /\ last' = [node EXCEPT !.comments = Len(comments)]
    /\ UNCHANGED <<cursor, call>>

VisitLocalStatement(nameLists, shapeLists) ==
    /\ CanStart
    /\ \E names \in nameLists, shapes \in shapeLists :
          LET node == LocalStatementNode(names, shapes, StatementLine(cursor + 1)) IN
          Leaf(node, LocalStatement(ex, node))

VisitAssignmentStatement(nameLists, shapeLists) ==
    /\ CanStart
    /\ \E names \in nameLists, shapes \in shapeLists :
          LET node == AssignmentStatementNode(names, shapes, StatementLine(cursor + 1)) IN
          Leaf(node, AssignmentStatement(ex, node))

VisitAssignmentOperatorStatement(operators, nameLists, shapeLists) ==
    /\ CanStart
    /\ \E operator \in operators, names \in nameLists, shapes \in shapeLists :
          LET node == AssignmentOperatorStatementNode(operator, names, shapes,
                                                      StatementLine(cursor + 1)) IN
          Leaf(node, AssignmentOperatorStatement(ex, node))

VisitReturnStatement(shapeLists) ==
    /\ CanStart
    /\ \E shapes \in shapeLists :
          LET node == ReturnStatementNode(shapes, StatementLine(cursor + 1)) IN
          Leaf(node, ReturnStatement(ex, node))

EnterBlock(node, entered, size) ==
    /\ ex' = entered.st
    /\ frames' = <<Frame(node, entered.locals, size)>> \o Consumed(size)
    /\ cursor' = cursor + 1
    /\ last' = node
    /\ UNCHANGED call

EnterFunctionDeclaration(names, locals, parameterLists) ==
    /\ CanStart
    /\ \E size \in 0..(Head(frames).remaining - 1) :
          \E name \in names, isLocal \in locals, parameters \in parameterLists :
             LET node == FunctionDeclarationNode(name, isLocal, parameters,
                                                 cursor + 1, size) IN
             EnterBlock(node, FunctionDeclarationEnter(ex, node), size)

EnterDoStatement ==
    /\ CanStart
    /\ \E size \in 0..(Head(frames).remaining - 1) :
          LET node == DoStatementNode(cursor + 1, size) IN
          EnterBlock(node, DoStatementEnter(ex, node), size)

CanReturn(type) ==
    /\ frames # <<>>
    /\ Running(ex)
    /\ Head(frames).type = type
    /\ Head(frames).remaining = 0

ExitFunctionDeclaration ==
    /\ CanReturn("FunctionDeclaration")
    /\ LET done == FunctionDeclarationExit(ex, Head(frames).node, Head(frames).locals) IN
       /\ ex' = done.st
       /\ last' = [type |-> "FunctionDeclaration", exit |-> TRUE,
                   node |-> Head(frames).node, augType |-> done.augType]
    /\ frames' = Tail(frames)
    /\ UNCHANGED <<cursor, call>>

ExitDoStatement ==
    /\ CanReturn("DoStatement")
    /\ ex' = DoStatementExit(ex, Head(frames).locals)
    /\ last' = [type |-> "DoStatement", exit |-> TRUE, node |-> Head(frames).node]
    /\ frames' = Tail(frames)
    /\ UNCHANGED <<cursor, call>>

ExitChunk ==
    /\ CanReturn("Chunk")
    /\ ex' = ChunkExit(ex)
    /\ last' = [type |-> "Chunk", exit |-> TRUE]
    /\ frames' = Tail(frames)
    /\ UNCHANGED <<cursor, call>>

\* Programs over the names x and y: locals, assignments, returns, functions
\* named y and do blocks, with no comments.
Next ==
    \/ Explore({<<>>})
    \/ VisitLocalStatement({<<"x">>}, {<<>>, <<"x">>})
    \/ VisitAssignmentStatement({<<"x">>, <<"y">>}, {<<"number">>})
    \/ VisitAssignmentOperatorStatement({"+"}, {<<"x">>}, {<<"number">>})
    \/ VisitReturnStatement({<<>>, <<"y">>})
    \/ EnterFunctionDeclaration({"y"}, BOOLEAN, {<<"x">>})
    \/ EnterDoStatement
    \/ ExitFunctionDeclaration
    \/ ExitDoStatement
    \/ ExitChunk

Spec == Init /\ [][Next]_vars

\* Programs of documented functions: a long-string comment may end on the
\* line above statement 1.
NextDoc ==
    \/ Explore(DocumentedComments \cup {<<>>})
    \/ VisitReturnStatement({<<>>, <<"number">>, <<"string", "number">>})
    \/ EnterFunctionDeclaration({"y"}, {FALSE}, {<<>>, <<"x">>, <<"x", "y">>})
    \/ ExitFunctionDeclaration
    \/ ExitChunk

SpecDoc == Init /\ [][NextDoc]_vars

(***************************************************************************)
(* The functions of typing.ts and util.ts on their own: call holds the     *)
(* arguments of a call and then what it returned; the walker stays as      *)
(* constructed.                                                            *)
(***************************************************************************)
Constructed ==
    /\ ex = reset
    /\ frames = <<>>
    /\ cursor = 0
    /\ last = [type |-> "none"]

MaxItems == 2

SeqsUpTo(S, n) == UNION {[1..m -> S] : m \in 0..n}

\* Type values: the atoms, and over them lists, unions, tables with an
\* identifier key and functions with named typed parameters ...
Compound(S, T) ==
    {Or(a, b) : a \in S, b \in T}
    \cup {Table(<<Entry(<<"k">>, a)>>) : a \in S}
    \cup {Fn(<<>>, b) : b \in T}
    \cup {Fn(<<Param(<<"a">>, a)>>, b) : a \in S, b \in T}

Level1 == Atoms \cup {List(s) : s \in SeqsUpTo(Atoms, MaxItems)} \cup Compound(Atoms, Atoms)

\* ... and the same once more over those.
TypeValues ==
    Level1 \cup {List(<<a>>) : a \in Level1}
           \cup Compound(Level1, Atoms) \cup Compound(Atoms, Level1)

\* README, "Function Type": the texts and the types they are documented as.
ReadmeTwoNumbers ==
    <<"(", "a", ":", " ", "n", "u", "m", "b", "e", "r", ",", " ", "b", ":",
      " ", "n", "u", "m", "b", "e", "r", ")", " ", "-", ">", " ", "n", "u",
      "m", "b", "e", "r">>
ReadmeNumberOrNil ==
    <<"(", "c", ":", " ", "s", "t", "r", "i", "n", "g", ")", " ", "-", ">",
      " ", "(", "n", "u", "m", "b", "e", "r", " ", "|", " ", "n", "i", "l",
      ")">>
ReadmeThreeStrings ==
    <<"(", "d", ":", " ", "n", "u", "m", "b", "e", "r", " ", "|", " ", "b",
      "o", "o", "l", "e", "a", "n", ")", " ", "-", ">", " ", "[", "s", "t",
      "r", "i", "n", "g", ",", " ", "s", "t", "r", "i", "n", "g", ",", " ",
      "s", "t", "r", "i", "n", "g", "]">>
ReadmeNoParameter ==
    <<"(", ")", " ", "-", ">", " ", "(", "[", "s", "t", "r", "i", "n", "g",
      ",", " ", "n", "u", "m", "b", "e", "r", "]", " ", "|", " ", "[", "n",
      "i", "l", ",", " ", "n", "i", "l", "]", ")">>

ReadmeFunctionTypes ==
    {[text |-> ReadmeTwoNumbers,
      type |-> Fn(<<Param(<<"a">>, LuaNumber), Param(<<"b">>, LuaNumber)>>, LuaNumber)],
     [text |-> ReadmeNumberOrNil,
      type |-> Fn(<<Param(<<"c">>, LuaString)>>, Or(LuaNumber, LuaNil))],
     [text |-> ReadmeThreeStrings,
      type |-> Fn(<<Param(<<"d">>, Or(LuaNumber, LuaBoolean))>>,
                  List(<<LuaString, LuaString, LuaString>>))],
     [text |-> ReadmeNoParameter,
      type |-> Fn(<<>>, Or(List(<<LuaString, LuaNumber>>), List(<<LuaNil, LuaNil>>)))]}

InitTyping ==
    /\ Constructed
    /\ call \in {[op |-> "represent", from |-> "value", type |-> t] : t \in TypeValues}
                \cup {[op |-> "parse", from |-> "README", type |-> r.type, text |-> r.text] :
                        r \in ReadmeFunctionTypes}

Represent ==
    /\ call.op = "represent"
    /\ call' = [op |-> "parse", from |-> call.from, type |-> call.type,
                text |-> represent(call.type)]
    /\ UNCHANGED <<ex, frames, cursor, last>>

Parse ==
    /\ call.op = "parse"
    /\ call' = [op |-> "done", from |-> call.from, type |-> call.type,
                text |-> call.text, result |-> parse(call.text)]
    /\ UNCHANGED <<ex, frames, cursor, last>>

NextTyping == Represent \/ Parse

SpecTyping == InitTyping /\ [][NextTyping]_vars

\* resolveListOfTypes on the types of up to MaxExprs expressions, then the
\* types[k] ?? 'nil' of the assigning statements for up to MaxTargets targets.
MaxExprs == 3
MaxTargets == 6

ExprTypes ==
    {None, LuaNumber, LuaBoolean, List(<<>>), List(<<LuaNumber, LuaString>>),
     List(<<LuaString, LuaBoolean, LuaNumber>>)}

InitResolve ==
    /\ Constructed
    /\ call \in {[op |-> "resolve", types |-> ts] : ts \in SeqsUpTo(ExprTypes, MaxExprs)}

Resolve ==
    /\ call.op = "resolve"
    /\ call' = [op |-> "zip", types |-> call.types,
                resolved |-> resolveListOfTypes(call.types)]
    /\ UNCHANGED <<ex, frames, cursor, last>>

Zip ==
    /\ call.op = "zip"
    /\ \E n \in 1..MaxTargets :
          call' = [op |-> "done", types |-> call.types, resolved |-> call.resolved,
                   targets |-> n,
                   received |-> [k \in 1..n |-> targetType(call.resolved, k)]]
    /\ UNCHANGED <<ex, frames, cursor, last>>

NextResolve == Resolve \/ Zip

SpecResolve == InitResolve /\ [][NextResolve]_vars

\* handlers.LogicalExpression once both operands have been visited.
OperandTypes ==
    Atoms \cup {None, List(<<LuaNumber>>), Or(LuaNumber, LuaString),
                Table(<<>>), Fn(<<>>, LuaNil)}

InitLogical ==
    /\ Constructed
    /\ call \in {[op |-> "visit", operator |-> o, left |-> l, right |-> r] :
                    o \in {"and", "or"}, l \in OperandTypes, r \in OperandTypes}

VisitLogicalExpression ==
    /\ call.op = "visit"
    /\ call' = [op |-> "done", operator |-> call.operator, left |-> call.left,
                right |-> call.right,
                augType |-> logicalType(call.operator, call.left, call.right)]
    /\ UNCHANGED <<ex, frames, cursor, last>>

NextLogical == VisitLogicalExpression

SpecLogical == InitLogical /\ [][NextLogical]_vars

(***************************************************************************)
(* explore.ts: handlers.UnaryExpression and handlers.BinaryExpression once *)
(* the operands have been visited.  An operator is the sequence of its     *)
(* characters, as node.operator holds it.                                  *)
(***************************************************************************)
\* String.prototype.startsWith and endsWith
startsWith(s, prefix) ==
    /\ Len(prefix) <= Len(s)
    /\ SubSeq(s, 1, Len(prefix)) = prefix

endsWith(s, suffix) ==
    /\ Len(suffix) <= Len(s)
    /\ SubSeq(s, Len(s) - Len(suffix) + 1, Len(s)) = suffix

unaryType(operator) ==
    IF operator = <<"n", "o", "t">> THEN LuaBoolean ELSE LuaNumber

binaryType(operator) ==
    LET isComparison == \/ endsWith(operator, <<"=">>)
                        \/ startsWith(operator, <<"<">>)
                        \/ startsWith(operator, <<">">>)
    IN  IF isComparison THEN LuaBoolean
        ELSE IF operator = <<".", ".">> THEN LuaString
        ELSE LuaNumber

\* The operators a node can hold: arithmetic and bitwise, shifts and
\* rotations, comparisons, concatenation; and the unary ones.
ArithmeticOperators ==
    {<<"+">>, <<"-">>, <<"*">>, <<"/">>, <<"%">>, <<"^">>, <<"\\">>,
     <<"&">>, <<"|">>, <<"^", "^">>}

ShiftOperators ==
    {<<"<", "<">>, <<">", ">">>, <<">", ">", ">">>, <<"<", "<", ">">>, <<">", ">", "<">>}

ComparisonOperators ==
    {<<"=", "=">>, <<"~", "=">>, <<"!", "=">>, <<"<">>, <<"<", "=">>, <<">">>, <<">", "=">>}

ConcatOperator == <<".", ".">>

BinaryOperators ==
    ArithmeticOperators \cup ShiftOperators \cup ComparisonOperators \cup {ConcatOperator}

UnaryOperators ==
    {<<"n", "o", "t">>, <<"-">>, <<"~">>, <<"#">>, <<"@">>, <<"%">>, <<"$">>}

InitExpression ==
    /\ Constructed
    /\ call \in {[op |-> "binary", operator |-> o, left |-> l, right |-> r] :
                    o \in BinaryOperators,
                    l \in {LuaNil, LuaNumber, LuaString}, r \in {LuaNil, LuaNumber, LuaString}}
               \cup
               {[op |-> "unary", operator |-> o, argument |-> a] :
                    o \in UnaryOperators, a \in OperandTypes}

VisitBinaryExpression ==
    /\ call.op = "binary"
    /\ call' = [op |-> "done", type |-> "BinaryExpression", operator |-> call.operator,
                operands |-> <<call.left, call.right>>,
                augType |-> binaryType(call.operator)]
    /\ UNCHANGED <<ex, frames, cursor, last>>

VisitUnaryExpression ==
    /\ call.op = "unary"
    /\ call' = [op |-> "done", type |-> "UnaryExpression", operator |-> call.operator,
                operands |-> <<call.argument>>,
                augType |-> unaryType(call.operator)]
    /\ UNCHANGED <<ex, frames, cursor, last>>

NextExpression ==
    \/ VisitBinaryExpression
    \/ VisitUnaryExpression

SpecExpression == InitExpression /\ [][NextExpression]_vars

(***************************************************************************)
(* explore.ts: the table handlers.  A field is visited with its key and    *)
(* value expressions already typed.  A key that a field holds (augKey) is  *)
(* undefined (None), null, a string, a number, a boolean, or { type }.     *)
(***************************************************************************)
Null == [k |-> "null"]
KeyString(text) == [k |-> "string", text |-> text]
KeyNumber(n) == [k |-> "number", n |-> n]
KeyBoolean(b) == [k |-> "boolean", b |-> b]
KeyTyped(type) == [k |-> "typed", type |-> type]

\* type.typed once set: an object keyed by the type of the key.
Typed(of) == [k |-> "typed", of |-> of]

\* isLuaTypedKey: the key is an object { type }.
isLuaTypedKey(key) == key.k = "typed"

TableKey(node) ==
    LET type == node.key.augType
        augKey ==
            IF type \in {LuaString, LuaNumber, LuaBoolean}
            THEN (IF node.key.type = "StringLiteral" THEN KeyString(node.key.value)
                  ELSE IF node.key.type = "NumericLiteral" THEN KeyNumber(node.key.value)
                  ELSE IF node.key.type = "BooleanLiteral" THEN KeyBoolean(node.key.value)
                  ELSE KeyTyped(type))
            ELSE IF type = LuaNil THEN Null
            ELSE None
    IN  [augKey |-> augKey, augType |-> OrNil(node.value.augType)]

TableKeyString(node) ==
    [augKey |-> KeyString(node.key.name), augType |-> OrNil(node.value.augType)]

TableValue(node) ==
    [augKey |-> None, augType |-> OrNil(node.value.augType)]

\* this.handlers[it.type](it) for a field
handleField(it) ==
    IF it.type = "TableKey" THEN TableKey(it)
    ELSE IF it.type = "TableKeyString" THEN TableKeyString(it)
    ELSE TableValue(it)

\* augmented.augType.forEach(_it => type.sequence[keyCounting++] = _it)
RECURSIVE sequenceAll(_, _, _)
sequenceAll(sequence, keyCounting, items) ==
    IF items = <<>> THEN sequence
    ELSE sequenceAll(MapPut(sequence, keyCounting, Head(items)), keyCounting + 1, Tail(items))

\* node.fields.forEach((it, k) => ...), lines 644-677, from the k-th field on
RECURSIVE fieldsForEach(_, _, _, _)
fieldsForEach(fields, k, keyCounting, type) ==
    IF k > Len(fields) THEN type
    ELSE LET augmented == handleField(fields[k])
             augKey == augmented.augKey
             t == firstOfType(augmented.augType)
         IN  IF augKey = Null
             THEN fieldsForEach(fields, k + 1, keyCounting, type)
             ELSE IF augmented.augType.k = "list" /\ Len(fields) = k /\ augKey = None
             THEN [type EXCEPT !.sequence = sequenceAll(@, keyCounting, augmented.augType.items)]
             ELSE IF augKey = None
             THEN fieldsForEach(fields, k + 1, keyCounting + 1,
                      [type EXCEPT !.sequence = MapPut(@, keyCounting, t)])
             ELSE fieldsForEach(fields, k + 1, keyCounting,
                      IF isLuaTypedKey(augKey)
                      THEN [type EXCEPT !.typed =
                              Typed(MapPut(IF @ = None THEN <<>> ELSE @.of, augKey.type, t))]
                      ELSE IF augKey.k = "string"
                      THEN [type EXCEPT !.entries = MapPut(@, augKey.text, t)]
                      ELSE IF augKey.k = "number"
                      THEN [type EXCEPT !.sequence = MapPut(@, augKey.n, t)]
                      ELSE IF augKey.b THEN [type EXCEPT !.true = t]
                      ELSE [type EXCEPT !.false = t])

TableConstructorExpression(st, node) ==
    LET pushed == contextPush(st, node)
        type == fieldsForEach(node.fields, 1, 1,
                    [k |-> "table", entries |-> <<>>, sequence |-> <<>>,
                     typed |-> None, true |-> None, false |-> None])
    IN  [st |-> contextPop(pushed, "TableConstructorExpression"), augType |-> type]

MaxFields == 3

\* The fields of the constructors: keyless values of one, no or two types;
\* identifier keys; literal keys; a nil key; keys that are variables of
\* type string, number or table.
FieldValue(augType) == [type |-> "TableValue", value |-> [augType |-> augType]]
FieldKeyString(name, augType) ==
    [type |-> "TableKeyString", key |-> [type |-> "Identifier", name |-> name],
     value |-> [augType |-> augType]]
FieldKey(key, augType) == [type |-> "TableKey", key |-> key, value |-> [augType |-> augType]]

Fields ==
    {FieldValue(LuaNumber), FieldValue(List(<<>>)), FieldValue(List(<<LuaString, LuaNumber>>)),
     FieldKeyString("a", LuaBoolean),
     FieldKeyString("b", List(<<LuaString, LuaNumber>>)),
     FieldKey([type |-> "StringLiteral", value |-> "a", augType |-> LuaString], LuaString),
     FieldKey([type |-> "NumericLiteral", value |-> 2, augType |-> LuaNumber], LuaString),
     FieldKey([type |-> "BooleanLiteral", value |-> TRUE, augType |-> LuaBoolean], LuaNumber),
     FieldKey([type |-> "BooleanLiteral", value |-> FALSE, augType |-> LuaBoolean], None),
     FieldKey([type |-> "NilLiteral", augType |-> LuaNil], LuaNumber),
     FieldKey([type |-> "Identifier", name |-> "x", augType |-> LuaString], LuaNumber),
     FieldKey([type |-> "Identifier", name |-> "y", augType |-> LuaNumber],
              List(<<LuaString, LuaNumber>>)),
     FieldKey([type |-> "Identifier", name |-> "t", augType |-> Table(<<>>)], LuaString)}

InitTable ==
    /\ Constructed
    /\ call \in {[op |-> "table", node |-> [type |-> "TableConstructorExpression",
                                            fields |-> fields]] :
                    fields \in SeqsUpTo(Fields, MaxFields)}

VisitTableConstructorExpression ==
    /\ call.op = "table"
    /\ LET visited == TableConstructorExpression(ex, call.node) IN
       /\ ex' = visited.st
       /\ call' = [op |-> "done", node |-> call.node, augType |-> visited.augType]
    /\ UNCHANGED <<frames, cursor, last>>

NextTable == VisitTableConstructorExpression

SpecTable == InitTable /\ [][NextTable]_vars

(***************************************************************************)
(* util.ts: rangeContains, and the calls of the three pure functions       *)
(* delimitSubstring, splitCarefully and rangeContains.                     *)
(***************************************************************************)
rangeContains(range, position) ==
    IF range.start.line < position.line /\ position.line < range.end.line THEN TRUE
    ELSE IF range.start.line = position.line
            /\ range.start.character <= position.character THEN TRUE
    ELSE IF range.end.line = position.line
            /\ position.character <= range.end.character THEN TRUE
    ELSE FALSE

MaxLength == 4
MaxLine == 2
MaxCharacter == 2

\* The example of delimitSubstring's documentation.
DelimitExample ==
    <<"(", "a", ",", " ", "b", ",", " ", "c", ")", " ", "-", ">", " ",
      "[", "(", "d", ")", " ", "-", ">", " ", "n", "i", "l", "]">>

\* Strings of brackets of two kinds, separators and blanks.
Strings == SeqsUpTo({"(", ")", "[", "]", ",", " "}, MaxLength) \cup {DelimitExample}

Positions == [line : 0..MaxLine, character : 0..MaxCharacter]

\* a is not after b in (line, character) order
NotAfter(a, b) ==
    \/ a.line < b.line
    \/ a.line = b.line /\ a.character <= b.character

Ranges == {r \in [start : Positions, end : Positions] : NotAfter(r.start, r.end)}

InitUtil ==
    /\ Constructed
    /\ call \in {[op |-> "delimitSubstring", str |-> str, open |-> d[1], close |-> d[2]] :
                    str \in Strings, d \in {<<"(", ")">>, <<"[", "]">>}}
               \cup {[op |-> "splitCarefully", str |-> str, sep |-> ","] : str \in Strings}
               \cup {[op |-> "rangeContains", range |-> range, position |-> position] :
                        range \in Ranges, position \in Positions}

CallDelimitSubstring ==
    /\ call.op = "delimitSubstring"
    /\ call' = [op |-> "done", from |-> "delimitSubstring", str |-> call.str,
                open |-> call.open, close |-> call.close,
                result |-> delimitSubstring(call.str, call.open, call.close)]
    /\ UNCHANGED <<ex, frames, cursor, last>>

CallSplitCarefully ==
    /\ call.op = "splitCarefully"
    /\ call' = [op |-> "done", from |-> "splitCarefully", str |-> call.str,
                sep |-> call.sep, result |-> splitCarefully(call.str, call.sep)]
    /\ UNCHANGED <<ex, frames, cursor, last>>

CallRangeContains ==
    /\ call.op = "rangeContains"
    /\ call' = [op |-> "done", from |-> "rangeContains", range |-> call.range,
                position |-> call.position,
                result |-> rangeContains(call.range, call.position)]
    /\ UNCHANGED <<ex, frames, cursor, last>>

NextUtil ==
    \/ CallDelimitSubstring
    \/ CallSplitCarefully
    \/ CallRangeContains

SpecUtil == InitUtil /\ [][NextUtil]_vars

(***************************************************************************)
(* documents.ts: Document.onContentUpdate.  call counts the content        *)
(* updates the document has had; an update starts when no handler runs     *)
(* (the previous one returned, or was left by an exception).               *)
(***************************************************************************)
MaxUpdates == 2

\* this.clear(): the tables of the previous traversal are dropped.
clear(st) == reset

\* A catch that reports the parser's own line.
onParseErrorAtErrorLine(st, err) ==
    LET at == [line |-> err.line, character |-> err.column] IN
    [st EXCEPT !.diagnostics =
        Append(@, [message |-> "ParseError", range |-> [start |-> at, end |-> at]])]

\* documents.ts lines 27-36: the catch of a ParseError
onParseError(st, err) ==
    LET at == [line |-> err.line - 1, character |-> err.column] IN
    [st EXCEPT !.diagnostics =
        Append(@, [message |-> "ParseError", range |-> [start |-> at, end |-> at]])]

InitDocument ==
    /\ Constructed
    /\ call = [op |-> "document", updates |-> 0]

CanUpdate ==
    /\ call.op = "document"
    /\ call.updates < MaxUpdates
    /\ frames = <<>> \/ ~Running(ex)

\* onContentUpdate, the parser returns a tree: clear, then explore() up to
\* the first statement of the chunk.
OnContentUpdate(commentLists) ==
    /\ CanUpdate
    /\ \E comments \in commentLists, size \in 0..MaxStatements :
          LET node == ChunkNode(comments, size) IN
          /\ ex' = ChunkEnter(clear(ex), node)
          /\ frames' = <<Frame(node, None, size)>>
          /\ last' = [node EXCEPT !.comments = Len(comments)]
    /\ cursor' = 0
    /\ call' = [call EXCEPT !.updates = @ + 1]

\* onContentUpdate, the parser throws a ParseError at (line, column).
OnContentUpdateParseError ==
    /\ CanUpdate
    /\ \E line \in 1..2, column \in 0..1 :
          /\ ex' = onParseError(clear(ex), [line |-> line, column |-> column])
          /\ last' = [type |-> "ParseError", line |-> line, column |-> column,
                      before |-> [symbols |-> Len(ex.symbols),
                                  lutVariables |-> Cardinality(DOMAIN ex.lutVariables),
                                  lutScopes |-> Len(ex.lutScopes)]]
    /\ frames' = <<>>
    /\ cursor' = 0
    /\ call' = [call EXCEPT !.updates = @ + 1]

NextDocument ==
    \/ OnContentUpdate({<<>>})
    \/ OnContentUpdateParseError
    \/ VisitLocalStatement({<<"x">>}, {<<>>})
    \/ EnterDoStatement
    \/ ExitDoStatement
    \/ ExitChunk

SpecDocument == InitDocument /\ [][NextDocument]_vars

\* Programs that assign to x and y, at the top level, in do blocks and in
\* local functions that take x as a parameter.
NextAssign ==
    \/ Explore({<<>>})
    \/ VisitLocalStatement({<<"x">>}, {<<>>})
    \/ VisitAssignmentStatement({<<"x">>, <<"y", "x">>}, {<<"number">>, <<"string", "x">>})
    \/ EnterFunctionDeclaration({"y"}, {TRUE}, {<<"x">>})
    \/ EnterDoStatement
    \/ ExitFunctionDeclaration
    \/ ExitDoStatement
    \/ ExitChunk

SpecAssign == Init /\ [][NextAssign]_vars

\* Programs of compound assignments to x and y, whose values are literals
\* or a vararg (an empty list, or the list a comment above it documents).
NextOperator ==
    \/ Explore({<<>>, <<Comment(DocListText)>>})
    \/ VisitLocalStatement({<<"x">>}, {<<"string">>})
    \/ VisitAssignmentOperatorStatement(
            {"..", "+"}, {<<"x">>, <<"x", "y">>},
            {<<"nil">>, <<"...">>, <<"...", "string">>})
    \/ ExitChunk

SpecOperator == Init /\ [][NextOperator]_vars

\* Programs of local functions x and y, nested in each other and in do
\* blocks, that return nothing, a number, or a string and a number.
NextReturns ==
    \/ Explore({<<>>})
    \/ VisitReturnStatement({<<>>, <<"number">>, <<"string", "number">>})
    \/ EnterFunctionDeclaration({"x", "y"}, {TRUE}, {<<>>})
    \/ EnterDoStatement
    \/ ExitFunctionDeclaration
    \/ ExitDoStatement
    \/ ExitChunk

SpecReturns == Init /\ [][NextReturns]_vars

(***************************************************************************)
(* explore.ts: labels.  A scope's labels table is created from the forked  *)
(* scope's (Object.create), like its variables.                            *)
(***************************************************************************)
\* The decimal digits of a number, as a template literal or + writes it.
RECURSIVE Digits(_)
Digits(n) == IF n < 10 THEN <<ToString(n)>> ELSE Digits(n \div 10) \o <<ToString(n % 10)>>

\* handlers.LabelStatement
LabelStatement(st, node) ==
    IF ~Running(st) THEN st ELSE
    LET range == locToRange(node.loc)
        previous == st.scopes[st.currentScope].labels[node.label.name]
    IN  IF previous # None
        THEN warning(st, "label already defined line " \o ToString(previous.start.line),
                     range)
        ELSE [st EXCEPT !.scopes[st.currentScope].labels[node.label.name] = range]

\* handlers.GotoStatement
GotoStatement(st, node) ==
    IF ~Running(st) THEN st ELSE
    LET own == st.scopes[st.currentScope].labels[node.label.name] IN
    IF own = None
    THEN warning(st, "label not defined", locToRange(node.loc))
    ELSE LET range == locToRange(node.label.loc) IN
         [st EXCEPT !.lutVariables =
             MapPut(@, range.start,
                    [range |-> range, name |-> node.label.name,
                     type |-> Str(<<"l", "i", "n", "e", " ">> \o Digits(own.start.line + 1)),
                     scope |-> st.currentScope])]

VisitLabelStatement(names) ==
    /\ CanStart
    /\ \E name \in names :
          LET line == StatementLine(cursor + 1)
              node == [type |-> "LabelStatement", label |-> IdentifierNode(name, line, 2),
                       loc |-> LeafLoc(line)]
          IN  Leaf(node, LabelStatement(ex, node))

VisitGotoStatement(names) ==
    /\ CanStart
    /\ \E name \in names :
          LET line == StatementLine(cursor + 1)
              node == [type |-> "GotoStatement", label |-> IdentifierNode(name, line, 5),
                       loc |-> LeafLoc(line)]
          IN  Leaf(node, GotoStatement(ex, node))

\* Programs of labels and gotos, at the top level and in do blocks.
NextLabels ==
    \/ Explore({<<>>})
    \/ VisitLabelStatement(Names)
    \/ VisitGotoStatement(Names)
    \/ EnterDoStatement
    \/ ExitDoStatement
    \/ ExitChunk

SpecLabels == Init /\ [][NextLabels]_vars

(***************************************************************************)
(* explore.ts: the statements that hold a body.  Each handler is cut at    *)
(* the walk of its body: Enter is what it does before, Exit what it does   *)
(* after; previousScope is the handler's local of that name.               *)
(***************************************************************************)
Tag(kind, node) == [kind |-> kind, line |-> node.loc.start.line]

\* handlers.IfStatement, line 425
IfStatementEnter(st, node) == [st |-> contextPush(st, node), locals |-> None]

\* handlers.IfStatement, line 427
IfStatementExit(st, locals) == contextPop(st, "IfStatement")

\* handlers.WhileStatement, lines 431-434.  header is this.currentScope at
\* the call of the condition's handler.
WhileStatementEnter(st, node) ==
    LET pushed == contextPush(st, node)
        visited == handleExpression(pushed, node.condition).st
    IN  [st |-> scopeFork(visited, locToRange(node.loc), Tag("while", node)),
         locals |-> [previousScope |-> visited.currentScope,
                     header |-> pushed.currentScope]]

\* handlers.WhileStatement, lines 436-437
WhileStatementExit(st, locals) ==
    contextPop(scopeRestore(st, locals.previousScope), "WhileStatement")

\* handlers.RepeatStatement, lines 449-450
RepeatStatementEnter(st, node) ==
    LET pushed == contextPush(st, node) IN
    [st |-> scopeFork(pushed, locToRange(node.loc), Tag("repeat", node)),
     locals |-> [previousScope |-> pushed.currentScope, condition |-> node.condition]]

\* handlers.RepeatStatement, lines 452-455
RepeatStatementExit(st, locals) ==
    LET restored == scopeRestore(st, locals.previousScope) IN
    contextPop(handleExpression(restored, locals.condition).st, "RepeatStatement")

\* handlers.ForNumericStatement, lines 548-551.  header is this.currentScope
\* at the calls of the handlers of start, end and step.
ForNumericStatementEnter(st, node) ==
    LET pushed == contextPush(st, node)
        forked == scopeFork(pushed, locToRange(node.loc), Tag("for", node))
        variable == Identifier(forked, node.variable).st
        bounds == SelectSeq(<<node.start, node.end, node.step>>, LAMBDA it : it # None)
    IN  [st |-> handleAll(variable, bounds, <<>>).st,
         locals |-> [previousScope |-> pushed.currentScope,
                     header |-> variable.currentScope]]

\* handlers.ForNumericStatement, lines 554-555
ForNumericStatementExit(st, locals) ==
    contextPop(scopeRestore(st, locals.previousScope), "WhileStatement")

\* handlers.ForGenericStatement, lines 559-562.  header is this.currentScope
\* at the calls of the iterators' handlers.
ForGenericStatementEnter(st, node) ==
    LET pushed == contextPush(st, node)
        forked == scopeFork(pushed, locToRange(node.loc), Tag("for", node))
        variables == handleAll(forked, node.variables, <<>>).st
    IN  [st |-> handleAll(variables, node.iterators, <<>>).st,
         locals |-> [previousScope |-> pushed.currentScope,
                     header |-> variables.currentScope]]

\* handlers.ForGenericStatement, lines 565-566
ForGenericStatementExit(st, locals) ==
    contextPop(scopeRestore(st, locals.previousScope), "WhileStatement")

\* handlers.IfClause, lines 572-575, and handlers.ElseifClause, lines 582-585
ConditionClauseEnter(st, node, kind) ==
    LET pushed == contextPush(st, node)
        visited == handleExpression(pushed, node.condition).st
    IN  [st |-> scopeFork(visited, locToRange(node.loc), Tag(kind, node)),
         locals |-> [previousScope |-> visited.currentScope]]

\* handlers.ElseClause, lines 592-593
ElseClauseEnter(st, node) ==
    LET pushed == contextPush(st, node) IN
    [st |-> scopeFork(pushed, locToRange(node.loc), Tag("else", node)),
     locals |-> [previousScope |-> pushed.currentScope]]

\* handlers.IfClause, lines 577-578; ElseifClause, 587-588; ElseClause, 595-596
ClauseExit(st, locals, type) == contextPop(scopeRestore(st, locals.previousScope), type)

\* this.handlers[node.type](node), up to the walk of the node's body
handlersEnter(st, node) ==
    CASE node.type = "IfStatement" -> IfStatementEnter(st, node)
      [] node.type = "WhileStatement" -> WhileStatementEnter(st, node)
      [] node.type = "RepeatStatement" -> RepeatStatementEnter(st, node)
      [] node.type = "ForNumericStatement" -> ForNumericStatementEnter(st, node)
      [] node.type = "ForGenericStatement" -> ForGenericStatementEnter(st, node)
      [] node.type = "IfClause" -> ConditionClauseEnter(st, node, "if")
      [] node.type = "ElseifClause" -> ConditionClauseEnter(st, node, "elseif")
      [] node.type = "ElseClause" -> ElseClauseEnter(st, node)

\* this.handlers[node.type](node), after the walk of the node's body
handlersExit(st, type, locals) ==
    CASE type = "IfStatement" -> IfStatementExit(st, locals)
      [] type = "WhileStatement" -> WhileStatementExit(st, locals)
      [] type = "RepeatStatement" -> RepeatStatementExit(st, locals)
      [] type = "ForNumericStatement" -> ForNumericStatementExit(st, locals)
      [] type = "ForGenericStatement" -> ForGenericStatementExit(st, locals)
      [] type \in {"IfClause", "ElseifClause", "ElseClause"} -> ClauseExit(st, locals, type)

Clauses == {"IfClause", "ElseifClause", "ElseClause"}

\* The node of statement (or clause) k, which holds size more statements:
\* a loop over name, a condition of this shape.
BlockNode(type, name, shape, k, size) ==
    LET line == StatementLine(k)
        loc == BlockLoc(k, size)
    IN  CASE type \in {"WhileStatement", "IfClause", "ElseifClause"} ->
                [type |-> type, condition |-> Expression(shape, line, 6), loc |-> loc]
          [] type = "RepeatStatement" ->
                [type |-> type, condition |-> Expression(shape, loc.end.line, 6),
                 loc |-> loc]
          [] type = "ForNumericStatement" ->
                [type |-> type, variable |-> IdentifierNode(name, line, 4),
                 start |-> Literal("NumericLiteral", line, 8),
                 end |-> Literal("NumericLiteral", line, 11),
                 step |-> None, loc |-> loc]
          [] type = "ForGenericStatement" ->
                [type |-> type, variables |-> <<IdentifierNode(name, line, 4)>>,
                 iterators |-> <<Expression(shape, line, 9)>>, loc |-> loc]
          [] type \in {"IfStatement", "ElseClause"} -> [type |-> type, loc |-> loc]

\* Where the parser puts such a node: clauses in an if statement and nowhere
\* else, the if clause first, the else clause last, and at least one clause.
WellFormed(type, size) ==
    LET parent == Head(frames)
        first == StatementLine(cursor) = parent.node.loc.start.line
    IN  IF parent.type = "IfStatement"
        THEN /\ type \in Clauses
             /\ type = "IfClause" <=> first
             /\ type = "ElseClause" => size = parent.remaining - 1
        ELSE /\ type \notin Clauses
             /\ type = "IfStatement" => size > 0

EnterStatement(type, names, shapes) ==
    /\ frames # <<>>
    /\ Running(ex)
    /\ Head(frames).remaining > 0
    /\ \E size \in 0..(Head(frames).remaining - 1) :
          /\ WellFormed(type, size)
          /\ \E name \in names, shape \in shapes :
                LET node == BlockNode(type, name, shape, cursor + 1, size) IN
                EnterBlock(node, handlersEnter(ex, node), size)

ExitStatement(type) ==
    /\ CanReturn(type)
    /\ ex' = handlersExit(ex, type, Head(frames).locals)
    /\ last' = [type |-> type, exit |-> TRUE, node |-> Head(frames).node]
    /\ frames' = Tail(frames)
    /\ UNCHANGED <<cursor, call>>

\* Programs of loops and conditionals over a local x.
NextBlocks ==
    \/ Explore({<<>>})
    \/ VisitLocalStatement({<<"x">>}, {<<>>})
    \/ EnterDoStatement
    \/ ExitDoStatement
    \/ EnterStatement("IfStatement", {"x"}, {"number"})
    \/ EnterStatement("IfClause", {"x"}, {"number", "x"})
    \/ EnterStatement("ElseifClause", {"x"}, {"number"})
    \/ EnterStatement("ElseClause", {"x"}, {"number"})
    \/ EnterStatement("WhileStatement", {"x"}, {"number", "x"})
    \/ EnterStatement("RepeatStatement", {"x"}, {"number", "x"})
    \/ EnterStatement("ForNumericStatement", {"x"}, {"number"})
    \/ EnterStatement("ForGenericStatement", {"x"}, {"x"})
    \/ \E type \in Clauses \cup {"IfStatement", "WhileStatement", "RepeatStatement",
                                 "ForNumericStatement", "ForGenericStatement"} :
          ExitStatement(type)
    \/ ExitChunk

SpecBlocks == Init /\ [][NextBlocks]_vars

(***************************************************************************)
(* Properties                                                              *)
(***************************************************************************)
\* C1: round trip.  For every type value t built from the atoms, lists,
\* unions, tables with identifier keys and functions with named typed
\* parameters, parse(represent(t)) is t.
C1_RoundTrip ==
    (call.op = "done" /\ call.from = "value") => call.result = call.type

\* C10: parse returns, for each function type text of the README (return part
\* not in square brackets included), the function type the text is documented
\* as, and raises no SyntaxError.
C10_ReadmeFunctionTexts ==
    (call.op = "done" /\ call.from = "README") => call.result = call.type

\* What one entry gives when it is not the last one.
OneOf(type) ==
    IF type.k = "list" THEN (IF type.items = <<>> THEN LuaNil ELSE type.items[1])
    ELSE IF type = None THEN LuaNil ELSE type

\* C2: multi-value resolution.  Every non-last entry contributes exactly one
\* type (the first element of a list, nil for an empty list or an undefined
\* entry, else itself), the last entry contributes all its elements in order
\* when it is a list (else itself or nil); target k receives element k, a
\* target beyond the sequence receives nil and extra elements are dropped.
C2_MultiValueResolution ==
    /\ call.op \in {"zip", "done"} =>
          LET types == call.types
              r == call.resolved
              n == Len(types)
          IN  /\ n = 0 => r = <<>>
              /\ n > 0 =>
                    /\ Len(r) >= n - 1
                    /\ \A i \in 1..(n - 1) : r[i] = OneOf(types[i])
                    /\ IF types[n].k = "list"
                       THEN /\ Len(r) = n - 1 + Len(types[n].items)
                            /\ \A j \in 1..Len(types[n].items) :
                                  r[n - 1 + j] = types[n].items[j]
                       ELSE /\ Len(r) = n
                            /\ r[n] = (IF types[n] = None THEN LuaNil ELSE types[n])
    /\ call.op = "done" =>
          /\ Len(call.received) = call.targets
          /\ \A k \in 1..call.targets :
                call.received[k] =
                    (IF k <= Len(call.resolved) THEN call.resolved[k] ELSE LuaNil)

\* [[A, B], C, [D, E, F]] against six targets: A, C, D, E, F and nil.
C2_Witness ==
    /\ call.op = "done"
    /\ call.types = <<List(<<LuaNumber, LuaString>>), LuaBoolean,
                      List(<<LuaString, LuaBoolean, LuaNumber>>)>>
    /\ call.targets = Len(call.resolved) + 1
    /\ call.received = <<LuaNumber, LuaBoolean, LuaString, LuaBoolean, LuaNumber, LuaNil>>

\* The identifiers an expression list holds.
ReadsOf(expressions) ==
    {i \in 1..Len(expressions) : expressions[i].type = "Identifier"}

SuffixOf(old, new) ==
    /\ Len(old) <= Len(new)
    /\ SubSeq(new, Len(new) - Len(old) + 1, Len(new)) = old

\* The history of a variable after a step: the same, or (when the step reads
\* the name) the same with the reads put in front.
HistoryKept(old, new, read) ==
    IF read
    THEN /\ SuffixOf(old.types, new.types)
         /\ SuffixOf(old.ranges, new.ranges)
         /\ SuffixOf(old.scopes, new.scopes)
    ELSE new = old

\* After the step, the scope holds a record of its own for the identifier,
\* with the declaration as its only event, and a lookup gives that record.
OwnRecord(scope, it) ==
    LET v == ex'.scopes[scope].variables[it.name] IN
    /\ v # None
    /\ Len(v.types) = 1
    /\ v.ranges = <<locToRange(it.loc)>>
    /\ v.scopes = <<scope>>
    /\ ex'.currentScope = scope
    /\ variableLookup(ex', it.name) = v

C3_LocalShadows ==
    (last'.type = "LocalStatement" /\ cursor' = cursor + 1 /\ Running(ex')) =>
        \A i \in 1..Len(last'.variables) :
            LET it == last'.variables[i]
                child == ex.currentScope
                ancestor == ownerOf(ex.scopes, child, it.name)
            IN  (ancestor # 0 /\ ancestor # child) =>
                    /\ HistoryKept(ex.scopes[ancestor].variables[it.name],
                                   ex'.scopes[ancestor].variables[it.name],
                                   \E j \in ReadsOf(last'.init) :
                                       last'.init[j].name = it.name)
                    /\ OwnRecord(child, it)

C3_ParameterShadows ==
    (/\ last'.type = "FunctionDeclaration"
     /\ "exit" \notin DOMAIN last'
     /\ cursor' = cursor + 1
     /\ Running(ex')) =>
        \A i \in 1..Len(last'.parameters) :
            LET it == last'.parameters[i]
                ancestor == ownerOf(ex.scopes, ex.currentScope, it.name)
            IN  ancestor # 0 =>
                    /\ ex'.scopes[ancestor].variables[it.name]
                          = ex.scopes[ancestor].variables[it.name]
                    /\ ex'.currentScope # ancestor
                    /\ OwnRecord(ex'.currentScope, it)

C3_RestoreUncovers ==
    (/\ "exit" \in DOMAIN last'
     /\ last'.type \in {"DoStatement", "FunctionDeclaration"}
     /\ Running(ex')) =>
        LET child == ex.currentScope
            parent == ex.scopes[child].parent
        IN  /\ ex'.currentScope = parent
            /\ \A n \in Names :
                  (last'.type = "FunctionDeclaration"
                      => n # last'.node.identifier.name) =>
                     variableLookup(ex', n) = lookupFrom(ex.scopes, parent, n)

C3_ForkInherits ==
    (/\ last'.type \in {"DoStatement", "FunctionDeclaration"}
     /\ "exit" \notin DOMAIN last'
     /\ cursor' = cursor + 1
     /\ Running(ex')) =>
        LET parent == ex.currentScope
            child == ex'.currentScope
        IN  /\ child = Len(ex.scopes) + 1
            /\ ex'.scopes[child].parent = parent
            /\ \A n \in Names :
                  (last'.type = "FunctionDeclaration"
                      => \A i \in 1..Len(last'.parameters) :
                            last'.parameters[i].name # n) =>
                     variableLookup(ex', n) = lookupFrom(ex.scopes, parent, n)

\* C3: shadowing.  Declaring, in a forked scope, a name an ancestor scope
\* holds creates a record owned by the child and leaves the ancestor's record
\* as it was; a lookup from the child gives the child's record; after
\* scopeRestore a lookup from the parent, and from a scope forked later from
\* the same parent, gives the parent's record.
C3_Shadowing ==
    [][C3_LocalShadows /\ C3_ParameterShadows /\ C3_RestoreUncovers /\ C3_ForkInherits]_vars

\* A scope forked after a sibling that shadowed x sees the parent's x.
C3_Witness ==
    /\ Running(ex)
    /\ ex.currentScope > GlobalScope
    /\ last.type = "DoStatement"
    /\ "exit" \notin DOMAIN last
    /\ LET parent == ex.scopes[ex.currentScope].parent IN
       /\ ex.scopes[parent].variables["x"] # None
       /\ \E s \in 1..Len(ex.scopes) :
             /\ s # ex.currentScope
             /\ ex.scopes[s].parent = parent
             /\ ex.scopes[s].tag.kind = "do"
             /\ ex.scopes[s].variables["x"] # None
             /\ ex.scopes[s].variables["x"] # ex.scopes[parent].variables["x"]
       /\ variableLookup(ex, "x") = ex.scopes[parent].variables["x"]

C4_DeclaredGlobally ==
    (/\ last'.type \in {"AssignmentStatement", "AssignmentOperatorStatement"}
     /\ cursor' = cursor + 1
     /\ Running(ex')) =>
        \A i \in 1..Len(last'.variables) :
            LET it == last'.variables[i]
                created == ex'.scopes[GlobalScope].variables[it.name]
            IN  variableLookup(ex, it.name) = None =>
                    /\ created # None
                    /\ Len(created.types) = 1
                    /\ created.ranges = <<locToRange(it.loc)>>
                    /\ created.scopes = <<GlobalScope>>
                    /\ ownerOf(ex'.scopes, ex'.currentScope, it.name) = GlobalScope
                    /\ \A s \in 2..Len(ex'.scopes) :
                          ex'.scopes[s].variables[it.name]
                             = ex.scopes[s].variables[it.name]
                    /\ \A s \in 1..Len(ex'.scopes) :
                          /\ lookupFrom(ex'.scopes, s, it.name) # None
                          /\ ownerOf(ex.scopes, s, it.name) = 0
                                => lookupFrom(ex'.scopes, s, it.name) = created

C4_StaysResolvable ==
    Running(ex') =>
        \A n \in Names :
            ex.scopes[GlobalScope].variables[n] # None =>
                /\ ex'.scopes[GlobalScope].variables[n] # None
                /\ \A s \in 1..Len(ex'.scopes) : lookupFrom(ex'.scopes, s, n) # None

\* C4: an assignment (plain or with an operator) to a name that is not visible
\* from the current scope, at any depth, creates the record in the global
\* scope and not in the current one, and the name stays resolvable from every
\* scope of the traversal once the enclosing scopes are restored.
C4_UndeclaredAssignmentIsGlobal ==
    [][C4_DeclaredGlobally /\ C4_StaysResolvable]_vars

\* Back at the top level after a do block in which an assignment created a
\* global: the record has the assignment's target (column 0, inside the
\* block) as its only event.
C4_Witness ==
    /\ Running(ex)
    /\ last.type = "DoStatement"
    /\ "exit" \in DOMAIN last
    /\ ex.currentScope = GlobalScope
    /\ \E n \in Names :
          LET created == ex.scopes[GlobalScope].variables[n]
              block == locToRange(last.node.loc)
          IN  /\ created # None
              /\ Len(created.ranges) = 1
              /\ created.scopes = <<GlobalScope>>
              /\ created.ranges[1].start.character = 0
              /\ block.start.line < created.ranges[1].start.line
              /\ created.ranges[1].start.line < block.end.line
              /\ variableLookup(ex, n) = created

\* The function type a comment's first line states.
DocumentedType(firstLine) ==
    IF firstLine = DocFunctionText
    THEN Fn(<<Param(<<"a">>, LuaNumber)>>, LuaString)
    ELSE IF firstLine = DocBracketText
    THEN Fn(<<Param(<<"a">>, LuaNumber)>>, List(<<LuaString, LuaNumber>>))
    ELSE None

\* C5: a function declaration that starts on line L, with a block comment
\* ending on line L - 1 whose first line is a function type T, gets exactly T
\* as the type attached to the declaration and bound to its name, whatever
\* its parameters and return statements would give.
C5_DocumentationOverrideWins ==
    \A i \in 1..Len(frames) :
        frames[i].type = "Chunk" =>
            \A j \in 1..Len(frames[i].node.comments) :
                LET comment == frames[i].node.comments[j]
                    T == DocumentedType(comment.value[1])
                    declaration == IF "exit" \in DOMAIN last THEN last.node ELSE last
                IN  (/\ T # None
                     /\ last.type = "FunctionDeclaration"
                     /\ locToRange(declaration.loc).start.line
                           = locToRange(comment.loc).end.line + 1) =>
                        /\ Running(ex)
                        /\ "exit" \in DOMAIN last =>
                              /\ last.augType = T
                              /\ variableLookup(ex, declaration.identifier.name) # None
                              /\ variableLookup(ex, declaration.identifier.name).types[1] = T

\* An identifier node at a range.
NodeAt(n, range) ==
    [type |-> "Identifier", name |-> n, augType |-> None,
     loc |-> Loc(range.start.line + 1, range.start.character,
                 range.end.line + 1, range.end.character)]

\* A line below every statement.
FreshLine == StatementLine(MaxStatements + 2)

C6_NoRepeatedPosition ==
    \A s \in 1..Len(ex.scopes), n \in Names :
        LET v == ex.scopes[s].variables[n] IN
        v # None =>
            /\ Len(v.types) = Len(v.ranges)
            /\ Len(v.scopes) = Len(v.ranges)
            /\ \A i \in 1..(Len(v.ranges) - 1) : v.ranges[i].start # v.ranges[i + 1].start

C6_RevisitAddsNothing ==
    (Running(ex) /\ ex.currentScope # 0) =>
        \A n \in Names :
            LET v == variableLookup(ex, n) IN
            v # None =>
                LET again == Identifier(ex, NodeAt(n, v.ranges[1]))
                    node == IdentifierNode(n, FreshLine, 0)
                    first == Identifier(ex, node)
                    second == Identifier(first.st, [node EXCEPT !.augType = first.augType])
                IN  /\ variableLookup(again.st, n) = v
                    /\ Len(variableLookup(first.st, n).ranges) = Len(v.ranges) + 1
                    /\ variableLookup(second.st, n) = variableLookup(first.st, n)

\* C6: idempotent reference.  The Identifier handler, run again for the same
\* node or for a position that starts where the variable's most recent event
\* starts, leaves the variable's types, ranges and scopes as they are; no two
\* consecutive events of a history start at the same position.
C6_IdempotentReference == C6_NoRepeatedPosition /\ C6_RevisitAddsNothing

\* local x = x in a block: the read is the latest event of the outer x, and
\* the declared x has its declaration as its only event although the handler
\* visited the declared identifier right after declaring it.
C6_Witness ==
    /\ Running(ex)
    /\ last.type = "LocalStatement"
    /\ ex.currentScope # GlobalScope
    /\ Len(last.init) = 1
    /\ last.init[1].type = "Identifier"
    /\ last.init[1].name = "x"
    /\ LET outer == lookupFrom(ex.scopes, ex.scopes[ex.currentScope].parent, "x")
           own == ex.scopes[ex.currentScope].variables["x"]
       IN  /\ outer # None
           /\ Len(outer.ranges) >= 2
           /\ outer.ranges[1] = locToRange(last.init[1].loc)
           /\ own # None
           /\ Len(own.ranges) = 1

\* C7: for a logical expression with left type tl and right type tr: when tl
\* is nil, and gives nil and or gives tr; when tl is boolean, both give the
\* union of boolean and tr; for any other tl, and gives tr and or gives tl.
C7_LogicalOperatorTyping ==
    call.op = "done" =>
        LET tl == IF call.left = None THEN LuaNil ELSE call.left
            tr == IF call.right = None THEN LuaNil ELSE call.right
        IN  call.augType =
                (IF tl = LuaNil THEN (IF call.operator = "and" THEN LuaNil ELSE tr)
                 ELSE IF tl = LuaBoolean THEN Or(LuaBoolean, tr)
                 ELSE IF call.operator = "and" THEN tr ELSE tl)

C7_Witness ==
    /\ call.op = "done"
    /\ call.operator = "or"
    /\ call.left = LuaBoolean
    /\ call.right = LuaString
    /\ call.augType = Or(LuaBoolean, LuaString)

\* The expressions the statement of this step reads.
ReadExpressions ==
    IF cursor' # cursor + 1 THEN <<>>
    ELSE IF last'.type \in {"LocalStatement", "AssignmentStatement",
                            "AssignmentOperatorStatement"}
    THEN last'.init
    ELSE IF last'.type = "ReturnStatement" /\ contextFind(ex, "FunctionDeclaration") # 0
    THEN last'.arguments
    ELSE <<>>

\* C8: reading an identifier whose name has no record in the current scope
\* chain does not abort the traversal and adds no diagnostic: a position
\* entry of type nil is written for the read, recorded against the global
\* scope.
C8_UndeclaredReadIsNil ==
    [][\A i \in ReadsOf(ReadExpressions) :
          LET it == ReadExpressions[i]
              at == locToRange(it.loc).start
          IN  variableLookup(ex, it.name) = None =>
                /\ Running(ex')
                /\ ex'.diagnostics = ex.diagnostics
                /\ at \in DOMAIN ex'.lutVariables
                /\ ex'.lutVariables[at].type = LuaNil]_vars

\* C9: a return statement visited while no function declaration is on the
\* context stack adds exactly one diagnostic of severity Error at the
\* statement's range and changes nothing else (no list of returns, no scope,
\* no context), and the traversal goes on to the next statement.
C9_ReturnOutsideFunction ==
    [][(/\ last'.type = "ReturnStatement"
        /\ cursor' = cursor + 1
        /\ contextFind(ex, "FunctionDeclaration") = 0) =>
            /\ ex' = [ex EXCEPT !.diagnostics =
                        Append(@, [message |-> "no function to return from",
                                   range |-> locToRange(last'.loc),
                                   severity |-> "Error"])]
            /\ Running(ex')
            /\ frames' = Consumed(0)]_vars

\* A local statement handled after a return at the top level was reported.
C9_Witness ==
    /\ Running(ex)
    /\ Len(ex.diagnostics) = 1
    /\ ex.diagnostics[1].severity = "Error"
    /\ ex.diagnostics[1].message = "no function to return from"
    /\ last.type = "LocalStatement"
    /\ ex.diagnostics[1].range.start.line < locToRange(last.loc).start.line
    /\ variableLookup(ex, "x") # None

\* C11: when the parser fails on a content update, onContentUpdate returns
\* exactly one diagnostic, located at (error line - 1, error column), and the
\* symbol list, the position lookup table and the scope list are empty:
\* nothing of an earlier traversal of the document is left in them.
C11_ParseFailure ==
    last.type = "ParseError" =>
        LET at == [line |-> last.line - 1, character |-> last.column] IN
        /\ Len(ex.diagnostics) = 1
        /\ ex.diagnostics[1].range = [start |-> at, end |-> at]
        /\ Len(ex.symbols) = 0
        /\ Len(ex.symbolNodes) = 0
        /\ DOMAIN ex.lutVariables = {}
        /\ Len(ex.lutScopes) = 0

\* A failing update of a document whose previous update left symbols,
\* positions, scopes and (from a traversal that was aborted) nothing else.
C11_Witness ==
    /\ last.type = "ParseError"
    /\ call.updates = 2
    /\ last.before.symbols > 0
    /\ last.before.lutVariables > 0
    /\ last.before.lutScopes > 1

\* C12: for a block comment whose first line is not valid type text (plain
\* prose included, which parse must refuse with a SyntaxError), docProcess
\* gives a documentation entry with no type override whose free text still
\* holds that first line; the first line is removed from the text only when
\* it parses to a type.
C12_InvalidFirstLineIsKept ==
    \A i \in 1..Len(frames) :
        frames[i].type = "Chunk" =>
            \A j \in 1..Len(frames[i].node.comments) :
                LET comment == frames[i].node.comments[j]
                    first == comment.value[1]
                    value == MapGet(ex.docLineMap, locToRange(comment.loc).end.line).value
                    whole == Trim(Join([l \in 1..Len(comment.value) |->
                                          Trim(comment.value[l])], <<LineFeed>>))
                    rest == Trim(Join([l \in 1..(Len(comment.value) - 1) |->
                                         Trim(comment.value[l + 1])], <<LineFeed>>))
                IN  /\ first = DocProseText =>
                          /\ value.type = None
                          /\ value.text = whole
                    /\ value.text = rest =>
                          value.type \notin {None, ErrorType(Trim(first))}

\* A label of that name is defined in the scope or in a scope that encloses it.
RECURSIVE LabelVisible(_, _, _)
LabelVisible(scopes, scope, name) ==
    /\ scope # 0
    /\ \/ scopes[scope].labels[name] # None
       \/ LabelVisible(scopes, scopes[scope].parent, name)

\* The step added exactly one diagnostic, a warning.
OneMoreWarning ==
    /\ Len(ex'.diagnostics) = Len(ex.diagnostics) + 1
    /\ SubSeq(ex'.diagnostics, 1, Len(ex.diagnostics)) = ex.diagnostics
    /\ ex'.diagnostics[Len(ex'.diagnostics)].severity = "Warning"

\* C13: labels.  A LabelStatement whose name the current scope already owns
\* adds exactly one warning and leaves the recorded label range as it was; a
\* GotoStatement adds exactly one warning when no label of that name is
\* defined in the current scope or in an enclosing one, and no warning when
\* one is; in every case the traversal goes on.
C13_Labels ==
    [][/\ (last'.type = "LabelStatement" /\ cursor' = cursor + 1) =>
            /\ Running(ex')
            /\ ex.scopes[ex.currentScope].labels[last'.label.name] # None =>
                  /\ OneMoreWarning
                  /\ ex'.scopes = ex.scopes
       /\ (last'.type = "GotoStatement" /\ cursor' = cursor + 1) =>
            /\ Running(ex')
            /\ IF LabelVisible(ex.scopes, ex.currentScope, last'.label.name)
               THEN ex'.diagnostics = ex.diagnostics
               ELSE OneMoreWarning]_vars

\* The handlers that call scopeFork.
Forking ==
    {"FunctionDeclaration", "DoStatement", "WhileStatement", "RepeatStatement",
     "ForNumericStatement", "ForGenericStatement", "IfClause", "ElseifClause",
     "ElseClause"}

\* The handler of this node has forked its scope.
HasForked(st, node) ==
    \E i \in 1..Len(st.lutScopes) : st.lutScopes[i].range = locToRange(node.loc)

\* The scope that was current when the handler of this node forked its own.
EntryScope(st, node) ==
    LET i == CHOOSE i \in 1..Len(st.lutScopes) :
                st.lutScopes[i].range = locToRange(node.loc)
    IN  st.scopes[st.lutScopes[i].scope].parent

\* C14: fork/restore pairing.  On every exit from a handler that calls
\* scopeFork (function, while, do, repeat, numeric for, generic for, the if /
\* elseif / else clauses), exits by a thrown error included, the current scope
\* is the scope that was current on entry; so the current scope is the global
\* scope whenever the Chunk handler is not inside a block, and the scope list
\* has one entry for the global scope plus one per fork performed.
C14_ForkRestorePairing ==
    [][/\ ("exit" \in DOMAIN last' /\ last'.type \in Forking) =>
            ex'.currentScope = EntryScope(ex, last'.node)
       /\ (Running(ex) /\ ~Running(ex')) =>
            \A i \in 1..Len(frames') :
                (frames'[i].type \in Forking /\ HasForked(ex', frames'[i].node)) =>
                    ex'.currentScope = EntryScope(ex', frames'[i].node)
       /\ (Running(ex') /\ Len(frames') <= 1) => ex'.currentScope = GlobalScope
       /\ Running(ex') =>
            Len(ex'.lutScopes) =
                Len(ex.lutScopes)
                + (IF "exit" \notin DOMAIN last' /\ last'.type \in Forking \cup {"Chunk"}
                   THEN 1 ELSE 0)]_vars

\* C15: context stack balance.  Every handler that pushes a context marker
\* pops a marker of its own node kind before it returns: for every statement
\* kind (numeric and generic for loops included) the walk of a well-formed
\* tree never aborts with a wrong-kind context pop, the context stack holds
\* exactly the markers of the handlers that have started and not returned
\* (so after a handler returns it is what it was before the call), and it is
\* empty once the Chunk handler returns.
C15_ContextStackBalance ==
    [][/\ ~Running(ex') => ex'.thrown.message # "contextPop"
       /\ Running(ex') =>
            /\ Len(ex'.contextStack) = Len(frames')
            /\ \A i \in 1..Len(frames') :
                  /\ ex'.contextStack[i].type = frames'[i].type
                  /\ ex'.contextStack[i].loc = frames'[i].node.loc
       /\ ("exit" \in DOMAIN last' /\ last'.type = "Chunk") =>
            ex'.contextStack = <<>>]_vars

\* The type the i-th target of the assignment of this step is given.
AssignedType(i) ==
    LET init == last'.init IN
    IF i > Len(init) THEN LuaNil
    ELSE IF init[i].type = "NumericLiteral" THEN LuaNumber
    ELSE IF init[i].type = "StringLiteral" THEN LuaString
    ELSE variableLookup(ex, init[i].name).types[1]

\* The assignment of this step, for its i-th target, whose record scope
\* owner holds: one event (assigned type, target range) in front of the
\* record, after the events of the statement's reads of the name; no record
\* created or changed anywhere else.
UpdatedInPlace(i, owner) ==
    LET it == last'.variables[i]
        old == ex.scopes[owner].variables[it.name]
        new == ex'.scopes[owner].variables[it.name]
        reads == Cardinality({j \in ReadsOf(last'.init) : last'.init[j].name = it.name})
    IN  /\ Len(new.types) = Len(old.types) + reads + 1
        /\ Len(new.ranges) = Len(new.types)
        /\ new.types[1] = AssignedType(i)
        /\ new.ranges[1] = locToRange(it.loc)
        /\ SuffixOf(old.types, new.types)
        /\ SuffixOf(old.ranges, new.ranges)
        /\ Len(ex'.scopes) = Len(ex.scopes)
        /\ \A s \in 1..Len(ex.scopes) :
              s # owner => ex'.scopes[s].variables[it.name] = ex.scopes[s].variables[it.name]

\* Scope s is scope a or one of its descendants.
RECURSIVE DescendsFrom(_, _, _)
DescendsFrom(scopes, s, a) ==
    s # 0 /\ (s = a \/ DescendsFrom(scopes, scopes[s].parent, a))

AssignmentToVisible(i) ==
    /\ last'.type = "AssignmentStatement"
    /\ cursor' = cursor + 1
    /\ Running(ex')
    /\ i \in 1..Len(last'.variables)
    /\ variableLookup(ex, last'.variables[i].name) # None

\* C16 as stated: an assignment to an identifier whose record the current
\* scope or an ancestor owns prepends exactly one entry (assigned type,
\* target range) to that record, creates no record in the current or the
\* global scope, and the new type is what a lookup gives afterwards from the
\* owning scope and from all of its descendants.
C16_AllDescendantsSeeUpdate ==
    [][\A i \in 1..MaxTargets :
          AssignmentToVisible(i) =>
              LET name == last'.variables[i].name
                  owner == ownerOf(ex.scopes, ex.currentScope, name)
              IN  /\ UpdatedInPlace(i, owner)
                  /\ \A s \in 1..Len(ex'.scopes) :
                        DescendsFrom(ex'.scopes, s, owner) =>
                            lookupFrom(ex'.scopes, s, name).types[1] = AssignedType(i)]_vars

\* C16, amended: the same, where the new type is what a lookup gives
\* afterwards from the owning scope and from every descendant of it that
\* resolves the name to the owner's record, the current scope among them (a
\* descendant that shadows the name, or lies below one that does, keeps
\* resolving it to the shadowing record, which the assignment leaves alone).
C16_UpdateInPlace ==
    [][\A i \in 1..MaxTargets :
          AssignmentToVisible(i) =>
              LET name == last'.variables[i].name
                  owner == ownerOf(ex.scopes, ex.currentScope, name)
              IN  /\ UpdatedInPlace(i, owner)
                  /\ ownerOf(ex'.scopes, ex'.currentScope, name) = owner
                  /\ \A s \in 1..Len(ex'.scopes) :
                        IF ownerOf(ex'.scopes, s, name) = owner
                        THEN lookupFrom(ex'.scopes, s, name).types[1] = AssignedType(i)
                        ELSE lookupFrom(ex'.scopes, s, name) = lookupFrom(ex.scopes, s, name)]_vars

\* y, x = "s", x in a block, x owned by the global scope and shadowed in a
\* block that was closed before: the global record has the read and then
\* the assignment in front, the closed block's record is as it was.
C16_Witness ==
    /\ Running(ex)
    /\ last.type = "AssignmentStatement"
    /\ Len(last.variables) = 2
    /\ Len(last.init) = 2
    /\ ex.currentScope # GlobalScope
    /\ ownerOf(ex.scopes, ex.currentScope, "x") = GlobalScope
    /\ LET x == ex.scopes[GlobalScope].variables["x"] IN
       /\ Len(x.ranges) >= 3
       /\ x.ranges[1] = locToRange(last.variables[2].loc)
       /\ x.ranges[2] = locToRange(last.init[2].loc)
    /\ \E s \in 2..Len(ex.scopes) :
          /\ s # ex.currentScope
          /\ ex.scopes[s].variables["x"] # None
          /\ Len(ex.scopes[s].variables["x"].ranges) = 1

\* The type the walk gives an expression of the statement of this step.
VisitedType(it) ==
    CASE it.type = "NumericLiteral" -> LuaNumber
      [] it.type = "StringLiteral" -> LuaString
      [] it.type = "NilLiteral" -> LuaNil
      [] it.type = "Identifier" -> variableLookup(ex, it.name).types[1]
      [] it.type = "VarargLiteral" ->
            IF locToRange(it.loc).start.line - 1 \in DOMAIN ex.docLineMap
            THEN List(<<LuaString, LuaNumber>>) ELSE List(<<>>)

\* Plain multi-value resolution (C2) of the statement's values.
PlainResolution(init) ==
    LET n == Len(init)
        lastType == VisitedType(init[n])
    IN  IF n = 0 THEN <<>>
        ELSE [i \in 1..(n - 1) |-> OneOf(VisitedType(init[i]))]
             \o (IF lastType.k = "list" THEN lastType.items ELSE <<lastType>>)

\* C17: for an AssignmentOperatorStatement the type recorded for the first
\* target is string when the operator is the concatenation operator and
\* number for every other operator, whatever the type of the right-hand
\* expression (a list or nil included); the other targets receive the types
\* plain multi-value resolution assigns them.
C17_CompoundAssignment ==
    [][(/\ last'.type = "AssignmentOperatorStatement"
        /\ cursor' = cursor + 1
        /\ Running(ex')) =>
            LET plain == PlainResolution(last'.init) IN
            \A i \in 1..Len(last'.variables) :
                LET it == last'.variables[i]
                    recorded == variableLookup(ex', it.name)
                IN  /\ recorded # None
                    /\ recorded.ranges[1] = locToRange(it.loc)
                    /\ recorded.types[1] =
                          (IF i = 1
                           THEN (IF last'.operator = ".." THEN LuaString ELSE LuaNumber)
                           ELSE IF i <= Len(plain) THEN plain[i] ELSE LuaNil)]_vars

\* x, y ..= ... on the line below a comment that documents the vararg as
\* [string, number]: x is recorded as string (forced by the operator) and y
\* as number (the list's second value).
C17_Witness ==
    /\ Running(ex)
    /\ last.type = "AssignmentOperatorStatement"
    /\ last.operator = ".."
    /\ Len(last.variables) = 2
    /\ Len(last.init) = 1
    /\ last.init[1].type = "VarargLiteral"
    /\ ex.docLineMap # <<>>
    /\ locToRange(last.loc).start.line = 1
    /\ variableLookup(ex, "x").types[1] = LuaString
    /\ variableLookup(ex, "y").types[1] = LuaNumber

\* The return statements attached so far to the function declaration whose
\* handler is running for this node: their values' types, in order.
ReturnsOf(st, node) ==
    LET i == CHOOSE i \in 1..Len(st.contextStack) : st.contextStack[i].loc = node.loc
        augReturns == st.contextStack[i].augReturns
    IN  IF augReturns = None THEN <<>>
        ELSE [j \in 1..Len(augReturns.items) |-> augReturns.items[j].arguments]

\* The function declarations whose handlers are running, innermost first.
OpenFunctions == SelectSeq(frames, LAMBDA f : f.type = "FunctionDeclaration")

\* One return site folded: nothing gives nil, one value that value's type,
\* several values a List.
SiteType(values) ==
    IF Len(values) = 0 THEN LuaNil
    ELSE IF Len(values) = 1 THEN values[1]
    ELSE List(values)

\* The alternatives of a union, from left to right.
RECURSIVE Alternatives(_)
Alternatives(type) ==
    IF type.k = "or" THEN Alternatives(type.a) \o Alternatives(type.b) ELSE <<type>>

C18_ReturnAttached ==
    (/\ last'.type = "ReturnStatement"
     /\ cursor' = cursor + 1
     /\ Running(ex')) =>
        \A g \in 1..Len(OpenFunctions) :
            LET node == OpenFunctions[g].node IN
            ReturnsOf(ex', node) =
                (IF g = 1
                 THEN Append(ReturnsOf(ex, node),
                             [i \in 1..Len(last'.arguments) |->
                                VisitedType(last'.arguments[i])])
                 ELSE ReturnsOf(ex, node))

C18_ReturnsFolded ==
    (/\ last'.type = "FunctionDeclaration"
     /\ "exit" \in DOMAIN last'
     /\ Running(ex')) =>
        LET sites == ReturnsOf(ex, last'.node)
            inferred == last'.augType.return
        IN  /\ isLuaFunction(last'.augType)
            /\ Len(sites) = 0 => inferred = LuaNil
            /\ Len(sites) = 1 => inferred = SiteType(sites[1])
            /\ Len(sites) > 1 =>
                  /\ inferred.k = "or"
                  /\ Alternatives(inferred) = [j \in 1..Len(sites) |-> SiteType(sites[j])]
            /\ variableLookup(ex', last'.node.identifier.name).types[1] = last'.augType

\* C18: each return statement is attached to the nearest enclosing function
\* declaration of the context stack and to no outer one; the inferred return
\* type of a function is nil when it has no return statement, the folded
\* type of its return when it has one (no value: nil, one value: its type,
\* several: a List), and a union over the folded types of all its own
\* returns, in source order, when it has several; the returns of nested
\* functions do not contribute.
C18_ReturnInference == [][C18_ReturnAttached /\ C18_ReturnsFolded]_vars

\* An outer function that returns once before and once after a nested
\* function that returns too: its type is the union of its own two returns.
C18_Witness ==
    /\ Running(ex)
    /\ last.type = "FunctionDeclaration"
    /\ "exit" \in DOMAIN last
    /\ Len(frames) = 1
    /\ last.augType.return = Or(LuaNumber, List(<<LuaString, LuaNumber>>))
    /\ \E s \in 1..Len(ex.scopes) :
          /\ ex.scopes[s].parent # 0
          /\ ex.scopes[s].parent # GlobalScope
          /\ ex.scopes[s].tag.kind = "function"
          /\ ex.scopes[ex.scopes[s].parent].tag.kind = "function"
          /\ ex.scopes[ex.scopes[s].parent].tag.line = locToRange(last.node.loc).start.line + 1
    /\ \E n \in Names :
          /\ n # last.node.identifier.name
          /\ \E s \in 2..Len(ex.scopes) :
                /\ ex.scopes[s].variables[n] # None
                /\ ex.scopes[s].variables[n].types[1] = Fn(<<>>, LuaNil)

\* C19: arithmetic and bitwise binary operators, the shifts and rotations
\* included, give number, equality and ordering comparisons give boolean
\* and concatenation gives string; unary not gives boolean and every other
\* unary operator gives number, whatever the operand types.
C19_OperatorTyping ==
    call.op = "done" =>
        /\ (call.type = "BinaryExpression" /\
            call.operator \in ArithmeticOperators \cup ShiftOperators) =>
                call.augType = LuaNumber
        /\ (call.type = "BinaryExpression" /\ call.operator \in ComparisonOperators) =>
                call.augType = LuaBoolean
        /\ (call.type = "BinaryExpression" /\ call.operator = ConcatOperator) =>
                call.augType = LuaString
        /\ call.type = "UnaryExpression" =>
                call.augType = (IF call.operator = <<"n", "o", "t">>
                                THEN LuaBoolean ELSE LuaNumber)

\* The bucket the key of a field names: a field without a key and a numeric
\* literal key name the sequence, an identifier and a string literal the
\* entries, a boolean literal its slot, another key of type string, number
\* or boolean the typed bucket.
BucketOf(it) ==
    IF it.type = "TableValue" THEN "sequence"
    ELSE IF it.type = "TableKeyString" THEN "entries"
    ELSE IF it.key.type = "StringLiteral" THEN "entries"
    ELSE IF it.key.type = "NumericLiteral" THEN "sequence"
    ELSE IF it.key.type = "BooleanLiteral" THEN (IF it.key.value THEN "true" ELSE "false")
    ELSE IF it.key.augType \in {LuaString, LuaNumber, LuaBoolean} THEN "typed"
    ELSE "none"

\* How many of the first p fields have no key.
Keyless(fields, p) == Cardinality({q \in 1..p : fields[q].type = "TableValue"})

KeyOf(fields, p) ==
    LET it == fields[p] IN
    IF it.type = "TableValue" THEN Keyless(fields, p)
    ELSE IF it.type = "TableKeyString" THEN it.key.name
    ELSE IF it.key.type \in {"StringLiteral", "NumericLiteral"} THEN it.key.value
    ELSE it.key.augType

\* The last field has no key and yields several values.
Expands(fields) ==
    /\ fields # <<>>
    /\ fields[Len(fields)].type = "TableValue"
    /\ fields[Len(fields)].value.augType.k = "list"

\* The fields that write a key of a bucket, the expanding one aside.
Writers(fields, bucket, key) ==
    {p \in 1..Len(fields) :
        /\ ~(p = Len(fields) /\ Expands(fields))
        /\ BucketOf(fields[p]) = bucket
        /\ bucket \in {"true", "false"} \/ KeyOf(fields, p) = key}

Written(fields, bucket) ==
    {KeyOf(fields, p) : p \in {q \in 1..Len(fields) :
                                    /\ ~(q = Len(fields) /\ Expands(fields))
                                    /\ BucketOf(fields[q]) = bucket}}

\* The one value the last writer of a key contributes.
Contributed(fields, bucket, key) ==
    LET writers == Writers(fields, bucket, key)
        p == CHOOSE p \in writers : \A q \in writers : q <= p
        augType == fields[p].value.augType
    IN  IF augType.k = "list"
        THEN (IF augType.items = <<>> THEN LuaNil ELSE augType.items[1])
        ELSE IF augType = None THEN LuaNil ELSE augType

\* The keys and values the expanding last field appends.
Appended(fields) ==
    IF Expands(fields)
    THEN LET base == Keyless(fields, Len(fields) - 1)
             items == fields[Len(fields)].value.augType.items
         IN  [key \in (base + 1)..(base + Len(items)) |-> items[key - base]]
    ELSE <<>>

\* C20: the fields are classified in source order.  A field without a key
\* takes the next integer key, from 1 on, and one value (the first of
\* several, nil of none), but a last field without a key that yields
\* several values appends every one of them at the following integer keys;
\* string literal and identifier keys go to the entries, numeric literal
\* keys to the sequence, boolean literal keys to the true and false slots,
\* other keys of type string, number or boolean to the typed bucket.
C20_TableConstructor ==
    call.op = "done" =>
        LET fields == call.node.fields
            type == call.augType
            slot(bucket) == IF Writers(fields, bucket, 0) = {} THEN None
                            ELSE Contributed(fields, bucket, 0)
        IN  /\ DOMAIN type.sequence = Written(fields, "sequence") \cup DOMAIN Appended(fields)
            /\ \A key \in DOMAIN type.sequence :
                  type.sequence[key] = (IF key \in DOMAIN Appended(fields)
                                        THEN Appended(fields)[key]
                                        ELSE Contributed(fields, "sequence", key))
            /\ DOMAIN type.entries = Written(fields, "entries")
            /\ \A key \in DOMAIN type.entries :
                  type.entries[key] = Contributed(fields, "entries", key)
            /\ (type.typed = None) = (Written(fields, "typed") = {})
            /\ type.typed # None =>
                  /\ DOMAIN type.typed.of = Written(fields, "typed")
                  /\ \A key \in DOMAIN type.typed.of :
                        type.typed.of[key] = Contributed(fields, "typed", key)
            /\ type.true = slot("true")
            /\ type.false = slot("false")

\* C21: loop evaluation order.  When the handler of a while, numeric for or
\* generic for loop starts, the condition, bound and iterator expressions are
\* visited while the current scope is the scope enclosing the loop, and the
\* body is walked in a scope forked from it; every reference the header
\* makes is recorded with a scope other than the loop's own.
C21_LoopEvaluationOrder ==
    [][(/\ last'.type \in {"WhileStatement", "ForNumericStatement", "ForGenericStatement"}
        /\ "exit" \notin DOMAIN last'
        /\ cursor' = cursor + 1
        /\ Running(ex')) =>
            /\ Head(frames').locals.header = ex.currentScope
            /\ ex'.currentScope # ex.currentScope
            /\ ex'.scopes[ex'.currentScope].parent = ex.currentScope
            /\ \A at \in DOMAIN ex'.lutVariables \ DOMAIN ex.lutVariables :
                  ex'.lutVariables[at].scope # ex'.currentScope]_vars

\* How many opens less closes the first k characters hold.
Depth(str, open, close, k) ==
    Cardinality({i \in 1..k : str[i] = open}) - Cardinality({i \in 1..k : str[i] = close})

\* The 0-based index of the first open or close, Len(str) when there is none.
FirstDelimiter(str, open, close) ==
    IF \E i \in 1..Len(str) : str[i] \in {open, close}
    THEN (CHOOSE i \in 1..Len(str) :
            /\ str[i] \in {open, close}
            /\ \A j \in 1..(i - 1) : str[j] \notin {open, close}) - 1
    ELSE Len(str)

\* The 0-based indexes after the first open where the depth is back to 0.
Closings(str, open, close) ==
    {e \in (FirstDelimiter(str, open, close) + 1)..(Len(str) - 1) :
        Depth(str, open, close, e + 1) = 0}

Unmatched == <<"unmatched">>

RECURSIVE OpenAfter(_, _)
OpenAfter(str, k) ==
    IF k = 0 THEN <<>>
    ELSE LET before == OpenAfter(str, k - 1)
             c == str[k]
         IN  IF before = Unmatched THEN Unmatched
             ELSE IF c \in {"(", "[", "{"} THEN Append(before, c)
             ELSE IF c \in {")", "]", "}"}
             THEN (IF before # <<>> /\ <<before[Len(before)], c>> \in
                                           {<<"(", ")">>, <<"[", "]">>, <<"{", "}">>}
                   THEN SubSeq(before, 1, Len(before) - 1)
                   ELSE Unmatched)
             ELSE before

\* The positions of the separators that lie outside every group.
TopLevel(str, sep) == {k \in 1..Len(str) : str[k] = sep /\ OpenAfter(str, k - 1) = <<>>}

\* The i-th of them; 0 before the first, Len(str) + 1 after the last.
Cut(str, sep, i) ==
    IF i = 0 THEN 0
    ELSE IF i > Cardinality(TopLevel(str, sep)) THEN Len(str) + 1
    ELSE CHOOSE c \in TopLevel(str, sep) :
            Cardinality({d \in TopLevel(str, sep) : d < c}) = i - 1

Unblanked(str) == SelectSeq(str, LAMBDA c : c # " ")

C24_RangeContains ==
    (call.op = "done" /\ call.from = "rangeContains") =>
        call.result = (/\ NotAfter(call.range.start, call.position)
                       /\ NotAfter(call.position, call.range.end))

\* C25: variableDeclare, as a local statement without values calls it for
\* its name.  When the current scope itself already owns the name the call
\* raises an error and leaves the record of that scope and every scope as
\* it was; when only an ancestor scope owns it, or no scope, the call
\* succeeds and the current scope gets a record of one type, one range and
\* one scope, every other scope being left as it was.
C25_VariableDeclare ==
    [][(/\ last'.type = "LocalStatement"
        /\ cursor' = cursor + 1
        /\ last'.init = <<>>
        /\ Running(ex)) =>
            LET it == last'.variables[1]
                target == ex.currentScope
            IN  IF ex.scopes[target].variables[it.name] # None
                THEN /\ ex'.thrown = Error("declare")
                     /\ ex'.scopes = ex.scopes
                ELSE /\ Running(ex')
                     /\ Len(ex'.scopes[target].variables[it.name].types) = 1
                     /\ Len(ex'.scopes[target].variables[it.name].ranges) = 1
                     /\ Len(ex'.scopes[target].variables[it.name].scopes) = 1
                     /\ ex'.scopes[target].variables[it.name].scopes[1] = target
                     /\ \A s \in 1..Len(ex.scopes) : s # target => ex'.scopes[s] = ex.scopes[s]
                     /\ \A n \in Names \ {it.name} :
                           ex'.scopes[target].variables[n] = ex.scopes[target].variables[n]]_vars

\* A second local x in a block that had declared its own x over the x of
\* an enclosing scope: the first declaration went through, this one raised.
C25_Witness ==
    /\ last.type = "LocalStatement"
    /\ ex.thrown = Error("declare")
    /\ ex.currentScope # GlobalScope
    /\ ex.scopes[ex.currentScope].variables[last.variables[1].name] # None
    /\ Len(ex.scopes[ex.currentScope].variables[last.variables[1].name].types) = 1
    /\ ownerOf(ex.scopes, ex.scopes[ex.currentScope].parent, last.variables[1].name) # 0

\* The list a symbol was appended to: the children of its parent, or the
\* root list.
ListOf(st, parent) ==
    IF parent = 0 THEN st.symbols ELSE st.symbolNodes[parent].children

\* The symbols of the function declarations whose handlers are running in
\* these frames, innermost first.
OpenSymbols(st, running) ==
    LET functions == SelectSeq(running, LAMBDA f : f.type = "FunctionDeclaration") IN
    [g \in 1..Len(functions) |->
        CHOOSE id \in 1..Len(st.symbolNodes) :
            /\ st.symbolNodes[id].kind = "Function"
            /\ st.symbolNodes[id].range = locToRange(functions[g].node.loc)]

\* Every symbol is in the list of its parent and in no other list, once, and
\* every list is in visit order.
OutlineIsForest(st) ==
    LET ids == 1..Len(st.symbolNodes) IN
    /\ \A id \in ids, parent \in ids \cup {0} :
          Cardinality({i \in 1..Len(ListOf(st, parent)) : ListOf(st, parent)[i] = id})
            = (IF st.symbolNodes[id].parent = parent THEN 1 ELSE 0)
    /\ \A parent \in ids \cup {0} :
          \A i, j \in 1..Len(ListOf(st, parent)) :
              i < j => ListOf(st, parent)[i] < ListOf(st, parent)[j]

\* C26: symbol outline.  Every symbolEnter is matched by one symbolExit in
\* nested order: while the traversal runs the current symbol is that of the
\* innermost function declaration being visited (none outside functions, and
\* none after a completed traversal), the symbols a handler enters are
\* appended in visit order to the children of the symbol that is open, with
\* it as parent, or to the root list when none is open, and no symbol is in
\* more than one list.
C26_SymbolOutline ==
    [][Running(ex') =>
        LET open == OpenSymbols(ex', frames')
            new == (Len(ex.symbolNodes) + 1)..Len(ex'.symbolNodes)
            entering == last'.type = "FunctionDeclaration" /\ "exit" \notin DOMAIN last'
        IN  /\ ex'.currentSymbol = (IF open = <<>> THEN 0 ELSE open[1])
            /\ \A g \in 1..Len(open) :
                  ex'.symbolNodes[open[g]].parent = (IF g = Len(open) THEN 0 ELSE open[g + 1])
            /\ frames' = <<>> => ex'.currentSymbol = 0
            /\ OutlineIsForest(ex')
            /\ \A id \in new :
                  /\ ex'.symbolNodes[id].parent = ex.currentSymbol
                  /\ ListOf(ex', ex.currentSymbol) =
                        ListOf(ex, ex.currentSymbol)
                        \o [i \in 1..(id - Len(ex.symbolNodes)) |-> Len(ex.symbolNodes) + i]
                        \o SubSeq(ListOf(ex', ex.currentSymbol),
                                  Len(ListOf(ex, ex.currentSymbol)) + id - Len(ex.symbolNodes) + 1,
                                  Len(ListOf(ex', ex.currentSymbol)))
            /\ entering => (Cardinality(new) = 1 /\ ex'.currentSymbol \in new)
            /\ ~entering => ex'.currentSymbol \notin new
            /\ \A id \in 1..Len(ex.symbolNodes) :
                  /\ ex'.symbolNodes[id].parent = ex.symbolNodes[id].parent
                  /\ id # ex.currentSymbol =>
                        ex'.symbolNodes[id].children = ex.symbolNodes[id].children]_vars

\* A completed traversal whose outline has a function in a function with a
\* local of its own.
C26_Witness ==
    /\ Running(ex)
    /\ frames = <<>>
    /\ last.type = "Chunk"
    /\ ex.currentSymbol = 0
    /\ \E id \in 1..Len(ex.symbolNodes) :
          /\ ex.symbolNodes[id].kind = "Object"
          /\ ex.symbolNodes[id].parent # 0
          /\ ex.symbolNodes[ex.symbolNodes[id].parent].parent # 0

====
